------------------------- MODULE PickPipelineProofs -------------------------
(***************************************************************************)
(* Theorems about PickPipeline, for any number of picks, workers, retries, *)
(* faults and edits: type correctness, that no accepted pick is ever lost, *)
(* that pick.completed tells the truth, that nothing is dead-lettered      *)
(* before its retries are spent, that every repeat is paid for by a fault, *)
(* and that PickPipeline implements PickContract.                          *)
(***************************************************************************)
EXTENDS PickPipeline, ProductTableTheorems, FiniteSetTheorems

Busy == {"handle", "recheck", "completed", "failed", "error", "ack"}

(* A worker holds a delivery from its delivery to its ack or its death.    *)
WorkerInv ==
    \A w \in Workers :
        /\ pc[w] \in Busy => held[w] \in Message
        /\ pc[w] = "idle" => held[w] = NoMessage
        /\ pc[w] = "down" => ~open[w]

TypeInv == TypeOK /\ WorkerInv

(* Queues stay queues when a message is put in, or a present one taken.    *)
LEMMA QueueTyped ==
    ASSUME NEW q \in [Message -> Nat], NEW m \in Message
    PROVE  /\ Put(q, m) \in [Message -> Nat]
           /\ q[m] > 0 => Take(q, m) \in [Message -> Nat]
  BY DEF Put, Take

(* A counter of picks stays one.                                           *)
LEMMA CounterTyped ==
    ASSUME NEW f \in [Picks -> Nat], NEW k \in Picks
    PROVE  /\ Counted(f, k) \in [Picks -> Nat]
           /\ f[k] > 0 => Uncounted(f, k) \in [Picks -> Nat]
  BY DEF Counted, Uncounted

(* A retry raises x-retry-count by one, within MaxRetries.                 *)
LEMMA RetryTyped ==
    ASSUME NEW m \in Message, m.retries < MaxRetries
    PROVE  /\ Retried(m) \in Message
           /\ Retried(m).pick = m.pick
           /\ Retried(m).retries = m.retries + 1
  BY PipelineAssumption DEF Message, Retried

(* The delta a pick asks for keeps the table well formed.                  *)
LEMMA CommitTyped ==
    ASSUME TypeInv, NEW k \in Picks, Commits(k)
    PROVE  table' \in Table /\ taken' \in [Picks -> Nat]
<1>1. PICK p \in Products, n \in 1..MaxQuantity :
        p = Order[k].product /\ n = Order[k].quantity
  BY PipelineAssumption
<1>2. ~OutOfRange(table, p, -n)
  <2>1. CASE Exists(table, p)
    <3>1. table[p].quantity \in 0..Int4Max
      BY <2>1, RowInRange DEF TypeInv, TypeOK
    <3> QED
      BY <3>1, TableAssumption DEF OutOfRange, Shifted
  <2>2. CASE ~Exists(table, p)
    BY <2>2 DEF OutOfRange
  <2> QED
    BY <2>1, <2>2
<1>3. -n \in Int
  BY TableAssumption
<1>4. table' = Adjusted(table, p, -n, NoLocation) /\ Matches(table, p, -n)
  BY <1>1 DEF Commits, Covers
<1>5. table' \in Table
  BY <1>2, <1>3, <1>4, AdjustedInTable DEF TypeInv, TypeOK
<1> QED
  BY <1>5, CounterTyped DEF Commits, TypeInv, TypeOK

LEMMA DecrementTyped ==
    ASSUME TypeInv, NEW w \in Workers, TakesStock(w)
    PROVE  table' \in Table /\ taken' \in [Picks -> Nat] /\ held[w] \in Message
<1>1. held[w] \in Message /\ held[w].pick \in Picks /\ Commits(held[w].pick)
  BY DEF TypeInv, WorkerInv, Busy, TakesStock, Updating, Message
<1>2. PICK k \in Picks : k = held[w].pick
  BY <1>1
<1> QED
  BY <1>1, <1>2, CommitTyped

(* An UPDATE that is left behind is counted.                               *)
LEMMA LeftTyped ==
    ASSUME TypeInv, NEW w \in Workers, LeavesUpdate(w)
    PROVE  late' \in [Picks -> Nat]
<1>1. CASE late' = late
  BY <1>1 DEF TypeInv, TypeOK
<1>2. CASE Updating(w) /\ late' = Counted(late, held[w].pick)
  <2>1. held[w].pick \in Picks
    BY <1>2 DEF TypeInv, WorkerInv, Busy, Updating, Message
  <2> QED
    BY <1>2, <2>1, CounterTyped DEF TypeInv, TypeOK
<1> QED
  BY <1>1, <1>2 DEF LeavesUpdate

(* Requeueing a delivery keeps the queue typed.                            *)
LEMMA RequeuedTyped ==
    ASSUME TypeInv, NEW w \in Workers
    PROVE  Requeued(w) \in [Message -> Nat]
  BY QueueTyped DEF Requeued, TypeInv, TypeOK

(* The types and the deliveries held agree with where each worker is.      *)
LEMMA TypeStep == TypeInv /\ [Next]_vars => TypeInv'
<1> SUFFICES ASSUME TypeInv, [Next]_vars PROVE TypeInv'
  OBVIOUS
<1> USE DEF TypeInv, States, Busy, Moves
<1>0. faults \in Nat => faults + 1 \in Nat
  OBVIOUS
<1>1. ASSUME NEW k \in Picks, Publish(k) PROVE TypeInv'
  <2>1. [pick |-> k, retries |-> 0] \in Message
    BY PipelineAssumption DEF Message
  <2> QED
    BY <1>1, <2>1, QueueTyped, CounterTyped DEF Publish, TypeOK, WorkerInv, queues, outcomes
<1>2. ASSUME NEW m \in Message, NEW w \in Workers, Deliver(w, m) PROVE TypeInv'
  <2>1. ready' \in [Message -> Nat]
    BY <1>2, QueueTyped DEF Deliver, TypeOK
  <2>2. held' \in [Workers -> Message \cup {NoMessage}] /\ pc' \in [Workers -> States]
    BY <1>2 DEF Deliver, TypeOK
  <2> QED
    BY <1>2, <2>1, <2>2 DEF Deliver, TypeOK, WorkerInv, outcomes
<1>3. ASSUME NEW m \in Message, Expire(m) PROVE TypeInv'
  <2>1. ready' \in [Message -> Nat] /\ delayed' \in [Message -> Nat]
    BY <1>3, QueueTyped DEF Expire, TypeOK
  <2>2. audited' \in [Picks -> Nat]
    BY <1>3, CounterTyped DEF Expire, TypeOK, Message
  <2> QED
    BY <1>3, <2>1, <2>2 DEF Expire, TypeOK, WorkerInv, outcomes
<1>4. ASSUME NEW w \in Workers, Reject(w) PROVE TypeInv'
  BY <1>4 DEF Reject, TypeOK, WorkerInv, queues, outcomes
<1>5. ASSUME NEW w \in Workers, Decrement(w) PROVE TypeInv'
  <2>1. table' \in Table /\ taken' \in [Picks -> Nat] /\ pc[w] = "handle"
    BY <1>5, DecrementTyped DEF Decrement, TakesStock, Updating
  <2> QED
    BY <1>5, <2>1 DEF Decrement, TakesStock, TypeOK, WorkerInv, queues, outcomes
<1>6. ASSUME NEW w \in Workers, Unmatched(w) PROVE TypeInv'
  BY <1>6 DEF Unmatched, Updating, TypeOK, WorkerInv, queues, outcomes
<1>7. ASSUME NEW w \in Workers, Explain(w) PROVE TypeInv'
  BY <1>7 DEF Explain, TypeOK, WorkerInv, queues, outcomes
<1>8. ASSUME NEW w \in Workers, Emit(w) PROVE TypeInv'
  <2>1. held[w].pick \in Picks
    BY <1>8 DEF Emit, WorkerInv, Message
  <2>2. completed' \in [Picks -> Nat] /\ failed' \in [Picks -> Nat]
    <3>1. completed \in [Picks -> Nat] /\ failed \in [Picks -> Nat]
      BY DEF TypeOK
    <3>2. completed' \in {completed, Counted(completed, held[w].pick)}
      BY <1>8 DEF Emit, outcomes
    <3>3. failed' \in {failed, Counted(failed, held[w].pick)}
      BY <1>8 DEF Emit, outcomes
    <3> QED
      BY <2>1, <3>1, <3>2, <3>3, CounterTyped
  <2> QED
    BY <1>8, <2>2 DEF Emit, TypeOK, WorkerInv, queues
<1>9. ASSUME NEW w \in Workers, OnError(w) PROVE TypeInv'
  <2>1. held[w] \in Message /\ held[w].pick \in Picks
    BY <1>9 DEF OnError, WorkerInv, Message
  <2>2. /\ delayed' \in [Message -> Nat]
        /\ dead' \in [Message -> Nat]
        /\ errors' \in [Picks -> Nat]
    <3>1. CASE ~open[w]
      BY <1>9, <3>1 DEF OnError, TypeOK
    <3>2. CASE open[w] /\ held[w].retries < MaxRetries
      <4>1. /\ delayed' = Put(delayed, Retried(held[w]))
            /\ dead' = dead
            /\ errors' = Counted(errors, held[w].pick)
        BY <1>9, <3>2 DEF OnError
      <4>2. Retried(held[w]) \in Message
        BY <2>1, <3>2, RetryTyped
      <4> QED
        BY <2>1, <4>1, <4>2, QueueTyped, CounterTyped DEF TypeOK
    <3>3. CASE open[w] /\ ~(held[w].retries < MaxRetries)
      <4>1. /\ delayed' = delayed
            /\ dead' = Put(dead, held[w])
            /\ errors' = Counted(errors, held[w].pick)
        BY <1>9, <3>3 DEF OnError
      <4> QED
        BY <2>1, <4>1, QueueTyped, CounterTyped DEF TypeOK
    <3> QED
      BY <3>1, <3>2, <3>3
  <2> QED
    BY <1>9, <2>2 DEF OnError, TypeOK, WorkerInv, outcomes
<1>10. ASSUME NEW w \in Workers, Ack(w) PROVE TypeInv'
  BY <1>10 DEF Ack, TypeOK, WorkerInv, queues, outcomes
<1>11. ASSUME NEW w \in Workers, DatabaseFails(w) PROVE TypeInv'
  <2>1. late' \in [Picks -> Nat]
    BY <1>11, LeftTyped DEF DatabaseFails
  <2> QED
    BY <1>11, <2>1 DEF DatabaseFails, Fault, TypeOK, WorkerInv, queues, outcomes
<1>12. ASSUME NEW w \in Workers, ResultLost(w) PROVE TypeInv'
  <2>1. table' \in Table /\ taken' \in [Picks -> Nat] /\ pc[w] = "handle"
    BY <1>12, DecrementTyped DEF ResultLost, TakesStock, Updating
  <2> QED
    BY <1>12, <2>1 DEF ResultLost, Fault, TakesStock, TypeOK, WorkerInv, queues, outcomes
<1>13. ASSUME NEW w \in Workers, Crash(w) PROVE TypeInv'
  <2>1. late' \in [Picks -> Nat]
    BY <1>13, LeftTyped DEF Crash
  <2> QED
    BY <1>13, <2>1, RequeuedTyped DEF Crash, Fault, TypeOK, WorkerInv, outcomes
<1>14. ASSUME NEW w \in Workers, Disconnect(w) PROVE TypeInv'
  BY <1>14, RequeuedTyped DEF Disconnect, Fault, TypeOK, WorkerInv, outcomes
<1>15. ASSUME NEW w \in Workers, Restart(w) PROVE TypeInv'
  BY <1>15 DEF Restart, TypeOK, WorkerInv, queues, outcomes
<1>16. CASE Edit
  <2>1. table' \in Table
    <3>1. 0..MaxQuantity \subseteq 0..Int4Max
      BY TableAssumption
    <3> QED
      BY <1>16, <3>1, WrittenInTable, DeletedInTable DEF Edit, TypeOK
  <2> QED
    BY <1>16, <2>1 DEF Edit, TypeOK, WorkerInv, queues, outcomes
<1>17. ASSUME NEW k \in Picks, RunsLate(k) PROVE TypeInv'
  <2>1. late' \in [Picks -> Nat]
    BY <1>17, CounterTyped DEF RunsLate, TypeOK
  <2>2. table' \in Table /\ taken' \in [Picks -> Nat]
    BY <1>17, CommitTyped DEF RunsLate, TypeOK
  <2> QED
    BY <1>17, <2>1, <2>2 DEF RunsLate, TypeOK, WorkerInv, queues, outcomes
<1>18. CASE UNCHANGED vars
  BY <1>18 DEF vars, TypeOK, WorkerInv, queues, outcomes
<1> QED
  BY <1>1, <1>2, <1>3, <1>4, <1>5, <1>6, <1>7, <1>8, <1>9, <1>10, <1>11, <1>12,
     <1>13, <1>14, <1>15, <1>16, <1>17, <1>18
     DEF Next, Receive, Step, Faulty, Quiet

(* The combined type invariant of every behaviour.                         *)
LEMMA TypeInvHolds == Spec => []TypeInv
<1>1. Init => TypeInv
  BY DEF Init, TypeInv, TypeOK, WorkerInv, EmptyQueue, None, States, Busy
<1> QED
  BY <1>1, TypeStep, PTL DEF Spec

(* The pipeline is type correct: stock stays within 0..Int4Max whatever    *)
(* the workers, the API and the faults do, and no queue count goes below 0. *)
THEOREM TypeCorrect == Spec => []TypeOK
<1>1. TypeInv => TypeOK
  BY DEF TypeInv
<1> QED
  BY <1>1, TypeInvHolds, PTL

-----------------------------------------------------------------------------
(* No pick is lost.  NoPickLost is not inductive: a worker about to ack is *)
(* no witness, for its ack removes the delivery.  What is inductive is     *)
(* that a witness exists among the others.                                 *)

Queued(k) == \E m \in Message : m.pick = k /\ (ready[m] > 0 \/ delayed[m] > 0)

Worked(k) == \E w \in Workers : /\ open[w]
                                /\ pc[w] \in Busy \ {"ack"}
                                /\ held[w].pick = k

Covered(k) == Queued(k) \/ Worked(k) \/ Settled(k)

NoPickLostInv == \A k \in published : Covered(k)

(* Putting a message in a queue only adds witnesses.                       *)
LEMMA PutKeeps ==
    ASSUME NEW q \in [Message -> Nat], NEW m \in Message
    PROVE  /\ Put(q, m)[m] > 0
           /\ \A n \in Message : q[n] > 0 => Put(q, m)[n] > 0
  BY DEF Put

(* Taking one removes at most that message.                                *)
LEMMA TakeKeeps ==
    ASSUME NEW q \in [Message -> Nat], NEW m \in Message
    PROVE  \A n \in Message : n # m /\ q[n] > 0 => Take(q, m)[n] > 0
  BY DEF Take

(* Counting an outcome keeps every outcome counted before.                 *)
LEMMA CountKeeps ==
    ASSUME NEW f \in [Picks -> Nat], NEW k \in Picks
    PROVE  /\ Counted(f, k)[k] > 0
           /\ \A j \in Picks : f[j] > 0 => Counted(f, k)[j] > 0
           /\ \A j \in Picks : Counted(f, k)[j] >= f[j]
           /\ Counted(f, k)[k] = f[k] + 1
  BY DEF Counted

(* What a step that leaves queues, outcomes and connections alone and      *)
(* moves no worker to or from its ack does to the witnesses: nothing.      *)
LEMMA CoverUnmoved ==
    ASSUME TypeInv, NoPickLostInv, NEW w \in Workers,
           pc[w] \in Busy \ {"ack"}, NEW s \in Busy \ {"ack"}, Moves(w, s),
           UNCHANGED <<published, queues, held, open, outcomes>>
    PROVE  NoPickLostInv'
<1>1. \A k : Queued(k)' = Queued(k) /\ Settled(k)' = Settled(k)
  BY DEF Queued, Settled, queues, outcomes
<1>2. ASSUME NEW k, Worked(k) PROVE Worked(k)'
  BY <1>2 DEF Worked, Moves, TypeInv, TypeOK
<1> QED
  BY <1>1, <1>2 DEF NoPickLostInv, Covered

(* Every step keeps a witness for every published pick.                    *)
LEMMA NoPickLostStep == TypeInv /\ NoPickLostInv /\ [Next]_vars => NoPickLostInv'
<1> SUFFICES ASSUME TypeInv, NoPickLostInv, [Next]_vars PROVE NoPickLostInv'
  OBVIOUS
<1> USE DEF Moves
<1>t. /\ ready \in [Message -> Nat] /\ delayed \in [Message -> Nat]
      /\ dead \in [Message -> Nat] /\ published \subseteq Picks
      /\ completed \in [Picks -> Nat] /\ failed \in [Picks -> Nat]
      /\ pc \in [Workers -> States] /\ open \in [Workers -> BOOLEAN]
      /\ held \in [Workers -> Message \cup {NoMessage}]
  BY DEF TypeInv, TypeOK
<1>h. \A w \in Workers :
        pc[w] \in Busy => held[w] \in Message /\ held[w].pick \in Picks
  BY DEF TypeInv, WorkerInv, Message
<1>1. ASSUME NEW k \in Picks, Publish(k) PROVE NoPickLostInv'
  <2>1. [pick |-> k, retries |-> 0] \in Message
    BY PipelineAssumption DEF Message
  <2>2. \A j : Worked(j)' = Worked(j) /\ Settled(j)' = Settled(j)
    BY <1>1 DEF Publish, Worked, Settled, outcomes
  <2>3. \A j : Queued(j) => Queued(j)'
    BY <1>1, <1>t, <2>1, PutKeeps DEF Publish, Queued
  <2>4. Queued(k)'
    BY <1>1, <1>t, <2>1, PutKeeps DEF Publish, Queued
  <2> QED
    BY <1>1, <2>2, <2>3, <2>4 DEF Publish, NoPickLostInv, Covered
<1>2. ASSUME NEW m \in Message, NEW w \in Workers, Deliver(w, m)
      PROVE  NoPickLostInv'
  <2>1. \A j : Settled(j)' = Settled(j)
    BY <1>2 DEF Deliver, Settled, outcomes
  <2>2. \A j : Worked(j) => Worked(j)'
    BY <1>2, <1>t DEF Deliver, Worked, Busy
  <2>3. Worked(m.pick)'
    BY <1>2, <1>t DEF Deliver, Worked, Busy
  <2>4. \A j : Queued(j) => Queued(j)' \/ j = m.pick
    BY <1>2, <1>t, TakeKeeps DEF Deliver, Queued
  <2> QED
    BY <1>2, <2>1, <2>2, <2>3, <2>4 DEF Deliver, NoPickLostInv, Covered
<1>3. ASSUME NEW m \in Message, Expire(m) PROVE NoPickLostInv'
  <2>1. \A j : Worked(j)' = Worked(j) /\ Settled(j)' = Settled(j)
    BY <1>3 DEF Expire, Worked, Settled, outcomes
  <2>2. \A j : Queued(j) => Queued(j)'
    <3> SUFFICES ASSUME NEW n \in Message, ready[n] > 0 \/ delayed[n] > 0
                 PROVE  ready'[n] > 0 \/ delayed'[n] > 0
      BY DEF Queued
    <3>1. CASE n = m
      BY <1>3, <1>t, <3>1, PutKeeps DEF Expire
    <3>2. CASE n # m
      BY <1>3, <1>t, <3>2, PutKeeps, TakeKeeps DEF Expire
    <3> QED
      BY <3>1, <3>2
  <2> QED
    BY <1>3, <2>1, <2>2 DEF Expire, NoPickLostInv, Covered
<1>4. ASSUME NEW w \in Workers,
             Reject(w) \/ Decrement(w) \/ Unmatched(w) \/ Explain(w)
               \/ DatabaseFails(w) \/ ResultLost(w)
      PROVE  NoPickLostInv'
  <2>1. /\ pc[w] \in Busy \ {"ack"}
        /\ UNCHANGED <<published, queues, held, open, outcomes>>
        /\ \E s \in Busy \ {"ack"} : Moves(w, s)
    BY <1>4 DEF Reject, Decrement, Unmatched, Explain, DatabaseFails, ResultLost,
                TakesStock, Updating, Busy
  <2> QED
    BY <2>1, CoverUnmoved
<1>5. ASSUME NEW w \in Workers, Emit(w) PROVE NoPickLostInv'
  <2>1. held[w].pick \in Picks /\ pc[w] \in {"completed", "failed"}
    BY <1>5, <1>h DEF Emit, Busy
  <2>2. CASE ~open[w]
    <3>1. UNCHANGED <<published, queues, held, open, outcomes>> /\ Moves(w, "error")
      BY <1>5, <2>2 DEF Emit
    <3> QED
      BY <2>1, <3>1, CoverUnmoved DEF Busy
  <2>3. CASE open[w]
    <3>1. \A j : Queued(j)' = Queued(j)
      BY <1>5 DEF Emit, Queued, queues
    <3>2. \A j \in Picks : Settled(j) => Settled(j)'
      <4>1. /\ \A j \in Picks : completed[j] > 0 => completed'[j] > 0
            /\ \A j \in Picks : failed[j] > 0 => failed'[j] > 0
            /\ dead' = dead
        BY <1>5, <1>t, <2>1, <2>3, CountKeeps DEF Emit, queues
      <4> QED
        BY <4>1 DEF Settled
    <3>3. Settled(held[w].pick)'
      BY <1>5, <1>t, <2>1, <2>3, CountKeeps DEF Emit, Settled
    <3>4. \A j : Worked(j) => Worked(j)' \/ j = held[w].pick
      BY <1>5, <1>t DEF Emit, Worked
    <3> QED
      BY <1>5, <1>t, <3>1, <3>2, <3>3, <3>4 DEF Emit, NoPickLostInv, Covered
  <2> QED
    BY <2>2, <2>3
<1>6. ASSUME NEW w \in Workers, OnError(w) PROVE NoPickLostInv'
  <2> DEFINE m == held[w]
  <2>1. m \in Message /\ m.pick \in Picks /\ pc[w] = "error" /\ held' = held
    BY <1>6, <1>h DEF OnError, Busy
  <2>2. CASE ~open[w]
    <3>1. \A j : Queued(j)' = Queued(j) /\ Settled(j)' = Settled(j)
      BY <1>6, <2>2 DEF OnError, Queued, Settled, outcomes
    <3>2. \A j : Worked(j) => Worked(j)'
      BY <1>6, <1>t, <2>2 DEF OnError, Worked
    <3> QED
      BY <1>6, <3>1, <3>2 DEF OnError, NoPickLostInv, Covered
  <2>3. CASE open[w]
    <3>1. \A j : Worked(j) => Worked(j)' \/ j = m.pick
      BY <1>6, <1>t DEF OnError, Worked
    <3>2. CASE m.retries < MaxRetries
      <4>1. delayed' = Put(delayed, Retried(m)) /\ ready' = ready /\ dead' = dead
        BY <1>6, <2>3, <3>2 DEF OnError
      <4>2. \A j : Queued(j) => Queued(j)'
        BY <1>t, <2>1, <3>2, <4>1, RetryTyped, PutKeeps DEF Queued
      <4>3. Queued(m.pick)'
        BY <1>t, <2>1, <3>2, <4>1, RetryTyped, PutKeeps DEF Queued
      <4>4. \A j : Settled(j)' = Settled(j)
        BY <1>6, <4>1 DEF OnError, Settled, outcomes
      <4> QED
        BY <1>6, <3>1, <4>2, <4>3, <4>4 DEF OnError, NoPickLostInv, Covered
    <3>3. CASE ~(m.retries < MaxRetries)
      <4>1. dead' = Put(dead, m) /\ ready' = ready /\ delayed' = delayed
        BY <1>6, <2>3, <3>3 DEF OnError
      <4>2. \A j : Queued(j)' = Queued(j)
        BY <4>1 DEF Queued
      <4>3. \A j : Settled(j) => Settled(j)'
        BY <1>6, <1>t, <2>1, <4>1, PutKeeps DEF OnError, Settled, outcomes
      <4>4. Settled(m.pick)'
        BY <1>t, <2>1, <4>1, PutKeeps DEF Settled
      <4> QED
        BY <1>6, <3>1, <4>2, <4>3, <4>4 DEF OnError, NoPickLostInv, Covered
    <3> QED
      BY <3>2, <3>3
  <2> QED
    BY <2>2, <2>3
<1>7. ASSUME NEW w \in Workers, Ack(w) PROVE NoPickLostInv'
  <2>1. \A j : Queued(j)' = Queued(j) /\ Settled(j)' = Settled(j)
    BY <1>7 DEF Ack, Queued, Settled, queues, outcomes
  <2>2. \A j : Worked(j) => Worked(j)'
    BY <1>7, <1>t DEF Ack, Worked
  <2> QED
    BY <1>7, <2>1, <2>2 DEF Ack, NoPickLostInv, Covered
<1>8. ASSUME NEW w \in Workers, Crash(w) \/ Disconnect(w) PROVE NoPickLostInv'
  <2>1. ready' = Requeued(w) /\ UNCHANGED <<published, delayed, dead, outcomes>>
    BY <1>8 DEF Crash, Disconnect
  <2>2. \A j : Settled(j)' = Settled(j)
    BY <2>1 DEF Settled, outcomes
  <2>3. \A j : Queued(j) => Queued(j)'
    BY <1>t, <2>1, PutKeeps DEF Queued, Requeued
  <2>4. ASSUME NEW j, Worked(j) PROVE Worked(j)' \/ Queued(j)'
    <3>1. PICK v \in Workers : open[v] /\ pc[v] \in Busy \ {"ack"} /\ held[v].pick = j
      BY <2>4 DEF Worked
    <3>2. CASE v = w
      <4>1. held[w] \in Message /\ held[w] # NoMessage
        BY <1>h, <3>1, <3>2, PipelineAssumption
      <4> QED
        BY <1>t, <2>1, <3>1, <3>2, <4>1, PutKeeps DEF Queued, Requeued
    <3>3. CASE v # w
      BY <1>8, <1>t, <3>1, <3>3 DEF Crash, Disconnect, Worked
    <3> QED
      BY <3>2, <3>3
  <2> QED
    BY <2>1, <2>2, <2>3, <2>4 DEF NoPickLostInv, Covered
<1>9. ASSUME NEW w \in Workers, Restart(w) PROVE NoPickLostInv'
  <2>1. \A j : Queued(j)' = Queued(j) /\ Settled(j)' = Settled(j)
    BY <1>9 DEF Restart, Queued, Settled, queues, outcomes
  <2>2. \A j : Worked(j) => Worked(j)'
    BY <1>9, <1>t DEF Restart, Worked, Busy
  <2> QED
    BY <1>9, <2>1, <2>2 DEF Restart, NoPickLostInv, Covered
<1>10. CASE Edit \/ UNCHANGED vars \/ \E k \in Picks : RunsLate(k)
  BY <1>10 DEF Edit, RunsLate, vars, NoPickLostInv, Covered, Queued, Worked,
               Settled, queues, outcomes
<1> QED
  BY <1>1, <1>2, <1>3, <1>4, <1>5, <1>6, <1>7, <1>8, <1>9, <1>10
     DEF Next, Receive, Step, Faulty, Quiet

(* A pick whose event reached the broker is never lost.                    *)
THEOREM NothingLost == Spec => []NoPickLost
<1>1. Init => NoPickLostInv
  BY DEF Init, NoPickLostInv
<1>2. TypeInv /\ NoPickLostInv => NoPickLost
  <2> SUFFICES ASSUME TypeInv, NEW k \in published, Covered(k)
               PROVE  InFlight(k) \/ Settled(k)
    BY DEF NoPickLostInv, NoPickLost
  <2>1. Worked(k) => InFlight(k)
    BY PipelineAssumption DEF Worked, InFlight, TypeInv, WorkerInv
  <2>2. Queued(k) => InFlight(k)
    BY DEF Queued, InFlight
  <2> QED
    BY <2>1, <2>2 DEF Covered
<1> QED
  BY <1>1, <1>2, NoPickLostStep, TypeInvHolds, PTL DEF Spec

-----------------------------------------------------------------------------
(* pick.completed tells the truth.  The invariant adds the workers that    *)
(* are about to say so.                                                    *)

CompletedInv ==
    /\ CompletedWasTaken
    /\ \A w \in Workers : pc[w] = "completed" => taken[held[w].pick] > 0

(* A step that neither publishes an outcome nor brings a worker to         *)
(* "completed" keeps it.                                                   *)
LEMMA CompletedUnmoved ==
    ASSUME TypeInv, CompletedInv, UNCHANGED <<completed, taken>>,
           \A w \in Workers : pc'[w] = "completed"
                              => pc[w] = "completed" /\ held'[w] = held[w]
    PROVE  CompletedInv'
  BY DEF CompletedInv, CompletedWasTaken

(* Every step keeps it.                                                    *)
LEMMA CompletedStep == TypeInv /\ CompletedInv /\ [Next]_vars => CompletedInv'
<1> SUFFICES ASSUME TypeInv, CompletedInv, [Next]_vars PROVE CompletedInv'
  OBVIOUS
<1> USE DEF Moves
<1>t. /\ pc \in [Workers -> States] /\ taken \in [Picks -> Nat]
      /\ completed \in [Picks -> Nat]
      /\ held \in [Workers -> Message \cup {NoMessage}]
  BY DEF TypeInv, TypeOK
<1>h. \A w \in Workers :
        pc[w] \in Busy => held[w] \in Message /\ held[w].pick \in Picks
  BY DEF TypeInv, WorkerInv, Message
<1>1. CASE \E k \in Picks : Publish(k)
  BY <1>1, CompletedUnmoved DEF Publish, outcomes
<1>2. CASE \E m \in Message : Receive(m) \/ Expire(m)
  BY <1>2, <1>t, CompletedUnmoved DEF Receive, Deliver, Expire, outcomes
<1>3. ASSUME NEW w \in Workers,
             Reject(w) \/ Unmatched(w) \/ Explain(w) \/ OnError(w) \/ Ack(w)
      PROVE  CompletedInv'
  <2>1. UNCHANGED <<completed, taken>>
    BY <1>3 DEF Reject, Unmatched, Explain, OnError, Ack, outcomes
  <2>2. \A v \in Workers : pc'[v] = "completed"
                           => pc[v] = "completed" /\ held'[v] = held[v]
    BY <1>3, <1>t DEF Reject, Unmatched, Explain, OnError, Ack
  <2> QED
    BY <2>1, <2>2, CompletedUnmoved
<1>4. ASSUME NEW w \in Workers, Decrement(w) \/ ResultLost(w) PROVE CompletedInv'
  <2>1. /\ held[w].pick \in Picks
        /\ taken' = Counted(taken, held[w].pick)
        /\ UNCHANGED <<completed, held>>
    BY <1>4, <1>h DEF Decrement, ResultLost, TakesStock, Updating, Commits, Busy, outcomes
  <2>2. /\ \A j \in Picks : taken[j] > 0 => taken'[j] > 0
        /\ taken'[held[w].pick] > 0
    BY <1>t, <2>1, CountKeeps
  <2>3. \A v \in Workers : v # w => pc'[v] = pc[v]
    BY <1>4, <1>t DEF Decrement, ResultLost
  <2> QED
    BY <1>h, <2>1, <2>2, <2>3 DEF CompletedInv, CompletedWasTaken, Busy
<1>5. ASSUME NEW w \in Workers, Emit(w) PROVE CompletedInv'
  <2> DEFINE k == held[w].pick
  <2>1. k \in Picks /\ held' = held /\ taken' = taken
    BY <1>5, <1>h DEF Emit, Busy
  <2>2. \A v \in Workers : pc'[v] = "completed" => pc[v] = "completed"
    BY <1>5, <1>t DEF Emit
  <2>3. \A j \in Picks : completed'[j] > 0 => completed[j] > 0 \/ taken[j] > 0
    <3>1. CASE completed' = completed
      BY <3>1
    <3>2. CASE completed' = Counted(completed, k) /\ pc[w] = "completed"
      BY <1>t, <2>1, <3>2 DEF Counted, CompletedInv
    <3> QED
      BY <1>5, <3>1, <3>2 DEF Emit, outcomes
  <2> QED
    BY <2>1, <2>2, <2>3 DEF CompletedInv, CompletedWasTaken
<1>6. ASSUME NEW w \in Workers,
             DatabaseFails(w) \/ Crash(w) \/ Disconnect(w) \/ Restart(w)
      PROVE  CompletedInv'
  <2>1. UNCHANGED <<completed, taken>>
    BY <1>6 DEF DatabaseFails, Crash, Disconnect, Restart, outcomes
  <2>2. \A v \in Workers : pc'[v] = "completed"
                           => pc[v] = "completed" /\ held'[v] = held[v]
    BY <1>6, <1>t DEF DatabaseFails, Crash, Disconnect, Restart
  <2> QED
    BY <2>1, <2>2, CompletedUnmoved
<1>7. CASE Edit \/ UNCHANGED vars
  BY <1>7, CompletedUnmoved DEF Edit, vars, outcomes
<1>8. ASSUME NEW k \in Picks, RunsLate(k) PROVE CompletedInv'
  <2>1. taken' \in {taken, Counted(taken, k)} /\ UNCHANGED <<completed, pc, held>>
    BY <1>8 DEF RunsLate, Commits, outcomes
  <2>2. \A j \in Picks : taken[j] > 0 => taken'[j] > 0
    BY <1>t, <2>1, CountKeeps
  <2> QED
    BY <1>h, <2>1, <2>2 DEF CompletedInv, CompletedWasTaken, Busy
<1> QED
  BY <1>1, <1>2, <1>3, <1>4, <1>5, <1>6, <1>7, <1>8 DEF Next, Step, Faulty, Quiet

(* Whoever reads pick.completed may rely on the stock having been taken.   *)
THEOREM CompletionIsTrue == Spec => []CompletedWasTaken
<1>1. Init => CompletedInv
  BY DEF Init, CompletedInv, CompletedWasTaken, None
<1>2. CompletedInv => CompletedWasTaken
  BY DEF CompletedInv
<1> QED
  BY <1>1, <1>2, CompletedStep, TypeInvHolds, PTL DEF Spec

-----------------------------------------------------------------------------
(* Dead letters.  x-retry-count never exceeds the failed attempts that     *)
(* were really made of its pick.                                           *)

Budgeted(m) == errors[m.pick] >= m.retries

BudgetInv ==
    /\ DeadAfterAllRetries
    /\ \A m \in Message : ready[m] > 0 \/ delayed[m] > 0 => Budgeted(m)
    /\ \A w \in Workers : held[w] \in Message => Budgeted(held[w])

(* Requeueing what a worker holds keeps the budget.                        *)
LEMMA RequeueBudget ==
    ASSUME TypeInv, BudgetInv, NEW w \in Workers, ready' = Requeued(w),
           UNCHANGED <<delayed, dead, errors>>,
           \A v \in Workers : held'[v] \in Message => held'[v] = held[v]
    PROVE  BudgetInv'
<1>1. \A m \in Message : ready'[m] > 0 => ready[m] > 0 \/ held[w] = m
  BY DEF Requeued, Put, TypeInv, TypeOK
<1> QED
  BY <1>1 DEF BudgetInv, Budgeted, DeadAfterAllRetries

(* So does every step that touches neither queues nor errors and hands     *)
(* nobody a new delivery.                                                  *)
LEMMA BudgetUnmoved ==
    ASSUME BudgetInv, UNCHANGED <<ready, delayed, dead, errors>>,
           \A v \in Workers : held'[v] \in Message => held'[v] = held[v]
    PROVE  BudgetInv'
  BY DEF BudgetInv, Budgeted, DeadAfterAllRetries

(* Every step keeps the budget.                                            *)
LEMMA BudgetStep == TypeInv /\ BudgetInv /\ [Next]_vars => BudgetInv'
<1> SUFFICES ASSUME TypeInv, BudgetInv, [Next]_vars PROVE BudgetInv'
  OBVIOUS
<1>t. /\ ready \in [Message -> Nat] /\ delayed \in [Message -> Nat]
      /\ dead \in [Message -> Nat] /\ errors \in [Picks -> Nat]
      /\ held \in [Workers -> Message \cup {NoMessage}]
      /\ NoMessage \notin Message /\ MaxRetries \in Nat
  BY PipelineAssumption DEF TypeInv, TypeOK
<1>m. \A m \in Message : m.pick \in Picks /\ m.retries \in 0..MaxRetries
  BY DEF Message
<1>1. ASSUME NEW k \in Picks, Publish(k) PROVE BudgetInv'
  <2> DEFINE first == [pick |-> k, retries |-> 0]
  <2>1. \A m \in Message : ready'[m] > 0 => ready[m] > 0 \/ m = first
    BY <1>1, <1>t DEF Publish, Put
  <2>2. Budgeted(first)
    BY <1>t DEF Budgeted
  <2>3. UNCHANGED <<delayed, dead, errors, held>>
    BY <1>1 DEF Publish
  <2> QED
    BY <2>1, <2>2, <2>3 DEF BudgetInv, Budgeted, DeadAfterAllRetries
<1>2. ASSUME NEW m \in Message, NEW w \in Workers, Deliver(w, m) PROVE BudgetInv'
  <2>1. \A n \in Message : ready'[n] > 0 => ready[n] > 0
    BY <1>2, <1>t DEF Deliver, Take
  <2>2. \A v \in Workers : held'[v] = held[v] \/ held'[v] = m
    BY <1>2, <1>t DEF Deliver
  <2>3. Budgeted(m)
    BY <1>2 DEF Deliver, BudgetInv
  <2>4. UNCHANGED <<delayed, dead, errors>>
    BY <1>2 DEF Deliver
  <2> QED
    BY <2>1, <2>2, <2>3, <2>4 DEF BudgetInv, Budgeted, DeadAfterAllRetries
<1>3. ASSUME NEW m \in Message, Expire(m) PROVE BudgetInv'
  <2>1. \A n \in Message : ready'[n] > 0 \/ delayed'[n] > 0
                           => ready[n] > 0 \/ delayed[n] > 0
    BY <1>3, <1>t DEF Expire, Put, Take
  <2>2. UNCHANGED <<dead, errors, held>>
    BY <1>3 DEF Expire
  <2> QED
    BY <2>1, <2>2 DEF BudgetInv, Budgeted, DeadAfterAllRetries
<1>4. ASSUME NEW w \in Workers, OnError(w) PROVE BudgetInv'
  <2> DEFINE m == held[w]
  <2>1. m \in Message /\ Budgeted(m) /\ held' = held /\ ready' = ready
    BY <1>4 DEF OnError, TypeInv, WorkerInv, Busy, BudgetInv
  <2>2. CASE ~open[w]
    <3>1. UNCHANGED <<delayed, dead, errors>>
      BY <1>4, <2>2 DEF OnError
    <3> QED
      BY <2>1, <3>1, BudgetUnmoved
  <2>3. CASE open[w]
    <3>1. errors' = Counted(errors, m.pick)
      BY <1>4, <2>3 DEF OnError
    <3>2. /\ \A j \in Picks : errors'[j] >= errors[j] /\ errors'[j] \in Nat
          /\ errors'[m.pick] = errors[m.pick] + 1
      BY <1>t, <1>m, <2>1, <3>1, CountKeeps, CounterTyped
    <3>3. \A n \in Message : Budgeted(n) => errors'[n.pick] >= n.retries
      BY <1>t, <1>m, <3>2 DEF Budgeted
    <3>4. CASE m.retries < MaxRetries
      <4>1. delayed' = Put(delayed, Retried(m)) /\ dead' = dead
        BY <1>4, <2>3, <3>4 DEF OnError
      <4>2. Retried(m) \in Message /\ errors'[Retried(m).pick] >= Retried(m).retries
        BY <1>t, <1>m, <2>1, <3>2, <3>4, RetryTyped DEF Budgeted
      <4>3. \A n \in Message : delayed'[n] > 0 => delayed[n] > 0 \/ n = Retried(m)
        BY <1>t, <4>1 DEF Put
      <4>4. \A n \in Message : dead'[n] > 0 => errors'[n.pick] >= MaxRetries + 1
        BY <1>t, <1>m, <3>2, <4>1 DEF BudgetInv, DeadAfterAllRetries
      <4> HIDE DEF m
      <4> QED
        BY <2>1, <3>3, <4>2, <4>3, <4>4 DEF BudgetInv, Budgeted, DeadAfterAllRetries
    <3>5. CASE ~(m.retries < MaxRetries)
      <4>1. dead' = Put(dead, m) /\ delayed' = delayed
        BY <1>4, <2>3, <3>5 DEF OnError
      <4>2. errors'[m.pick] >= MaxRetries + 1
        BY <1>t, <1>m, <2>1, <3>2, <3>5 DEF Budgeted
      <4>3. \A n \in Message : dead'[n] > 0 => dead[n] > 0 \/ n = m
        BY <1>t, <4>1 DEF Put
      <4>4. \A n \in Message : dead'[n] > 0 => errors'[n.pick] >= MaxRetries + 1
        BY <1>t, <1>m, <3>2, <4>2, <4>3 DEF BudgetInv, DeadAfterAllRetries
      <4> QED
        BY <2>1, <3>3, <4>1, <4>4 DEF BudgetInv, Budgeted, DeadAfterAllRetries
    <3> QED
      BY <3>4, <3>5
  <2> QED
    BY <2>2, <2>3
<1>5. ASSUME NEW w \in Workers, Crash(w) \/ Disconnect(w) PROVE BudgetInv'
  <2>1. ready' = Requeued(w) /\ UNCHANGED <<delayed, dead, errors>>
    BY <1>5 DEF Crash, Disconnect
  <2>2. \A v \in Workers : held'[v] \in Message => held'[v] = held[v]
    BY <1>5, <1>t DEF Crash, Disconnect
  <2> QED
    BY <2>1, <2>2, RequeueBudget
<1>6. ASSUME NEW w \in Workers,
             Reject(w) \/ Decrement(w) \/ Unmatched(w) \/ Explain(w) \/ Emit(w)
               \/ Ack(w) \/ DatabaseFails(w) \/ ResultLost(w) \/ Restart(w)
      PROVE  BudgetInv'
  <2>1. UNCHANGED <<ready, delayed, dead, errors>>
    BY <1>6 DEF Reject, Decrement, Unmatched, Explain, Emit, Ack, DatabaseFails,
                ResultLost, Restart, TakesStock, queues
  <2>2. \A v \in Workers : held'[v] \in Message => held'[v] = held[v]
    BY <1>6, <1>t DEF Reject, Decrement, Unmatched, Explain, Emit, Ack,
                      DatabaseFails, ResultLost, Restart, TakesStock
  <2> QED
    BY <2>1, <2>2, BudgetUnmoved
<1>7. CASE Edit \/ UNCHANGED vars \/ \E k \in Picks : RunsLate(k)
  BY <1>7, BudgetUnmoved DEF Edit, RunsLate, vars, queues
<1> QED
  BY <1>1, <1>2, <1>3, <1>4, <1>5, <1>6, <1>7
     DEF Next, Receive, Step, Faulty, Quiet

(* No pick is dead-lettered before MaxRetries + 1 attempts of it failed.   *)
THEOREM RetriesAreSpent == Spec => []DeadAfterAllRetries
<1>1. Init => BudgetInv
  BY PipelineAssumption DEF Init, BudgetInv, DeadAfterAllRetries, EmptyQueue
<1>2. BudgetInv => DeadAfterAllRetries
  BY DEF BudgetInv
<1> QED
  BY <1>1, <1>2, BudgetStep, TypeInvHolds, PTL DEF Spec

-----------------------------------------------------------------------------
(* Repeats, and the refinement of PickContract.  The proof keeps books:    *)
(* every copy of a pick's message and every worker that may still act on   *)
(* it is paid for by its publication or by a fault, so that whatever has   *)
(* an effect twice has a fault to show for it.                             *)

(* The copies of pick k in queue q.                                        *)
Copies(q, k) == {p \in Message \X Nat : p[1].pick = k /\ p[2] < q[p[1]]}

Holds(w, k) == held[w] \in Message /\ held[w].pick = k

(* Who may still take k's stock or report it failed; a worker that failed  *)
(* on an open channel will publish a copy that may.                        *)
Acting(k) ==
    {w \in Workers : /\ Holds(w, k)
                     /\ \/ pc[w] \in {"handle", "recheck", "failed"}
                        \/ pc[w] = "error" /\ open[w]}

(* Who may still report k's outcome: only on a channel that is open.       *)
Reporting(k) ==
    {w \in Workers : /\ Holds(w, k) /\ open[w]
                     /\ pc[w] \in Busy \ {"ack"}}

(* Who is about to count an error of k, and to report it completed.        *)
Erring(k) == {w \in Workers : Holds(w, k) /\ pc[w] = "error" /\ open[w]}

Completing(k) == {w \in Workers : Holds(w, k) /\ pc[w] = "completed"}

Asked(k) == IF k \in published THEN 1 ELSE 0

Finite(k) ==
    /\ IsFiniteSet(Copies(ready, k)) /\ IsFiniteSet(Copies(delayed, k))
    /\ IsFiniteSet(Acting(k)) /\ IsFiniteSet(Reporting(k))
    /\ IsFiniteSet(Erring(k)) /\ IsFiniteSet(Completing(k))

Queueing(k) == Cardinality(Copies(ready, k)) + Cardinality(Copies(delayed, k))

Account(k) ==
    /\ Finite(k)
    /\ taken[k] + failed[k] + late[k] + Queueing(k) + Cardinality(Acting(k))
         <= Asked(k) + faults
    /\ completed[k] + failed[k] + Queueing(k) + Cardinality(Reporting(k))
         <= Asked(k) + faults
    /\ k \notin Malformed => errors[k] + Cardinality(Erring(k)) <= faults
    /\ completed[k] + Cardinality(Completing(k)) <= taken[k]

(* Nothing moves that was not published, and what is no pick is rejected.  *)
OriginInv ==
    /\ \A m \in Message : ready[m] > 0 \/ delayed[m] > 0 => m.pick \in published
    /\ \A w \in Workers :
         held[w] \in Message =>
           /\ held[w].pick \in published
           /\ pc[w] \in {"recheck", "completed", "failed"} => held[w].pick \notin Malformed
    /\ \A k \in Picks : late[k] > 0 => k \in published /\ k \notin Malformed

AccountInv == \A k \in Picks : Account(k)

-----------------------------------------------------------------------------
(* Copies of a pick come and go one by one.                                *)
LEMMA PutCopies ==
    ASSUME NEW q \in [Message -> Nat], NEW m \in Message, NEW k \in Picks,
           IsFiniteSet(Copies(q, k))
    PROVE  /\ IsFiniteSet(Copies(Put(q, m), k))
           /\ Cardinality(Copies(Put(q, m), k))
                = Cardinality(Copies(q, k)) + (IF m.pick = k THEN 1 ELSE 0)
<1> DEFINE C == Copies(q, k)
           new == <<m, q[m]>>
<1>1. \A n \in Message : Put(q, m)[n] = IF n = m THEN q[n] + 1 ELSE q[n]
  BY DEF Put
<1>2. CASE m.pick = k
  <2>1. Copies(Put(q, m), k) = C \cup {new}
    <3>1. ASSUME NEW p \in Message \X Nat
          PROVE  p[2] < Put(q, m)[p[1]] <=> p[2] < q[p[1]] \/ p = new
      <4>1. CASE p[1] = m
        <5>1. p[2] \in Nat /\ q[m] \in Nat /\ p = <<p[1], p[2]>>
          OBVIOUS
        <5>2. p[2] < q[m] + 1 <=> p[2] < q[m] \/ p[2] = q[m]
          BY <5>1
        <5>3. p = new <=> p[2] = q[m]
          BY <4>1, <5>1
        <5>4. QED
          BY <1>1, <4>1, <5>2, <5>3
      <4>2. CASE p[1] # m
        BY <1>1, <4>2
      <4>3. QED
        BY <4>1, <4>2
    <3>2. new \in Message \X Nat /\ new[1].pick = k
      BY <1>2
    <3>3. QED
      BY <3>1, <3>2 DEF Copies
  <2>2. new \notin C
    BY DEF Copies
  <2>3. QED
    BY <1>2, <2>1, <2>2, FS_AddElement
<1>3. CASE m.pick # k
  <2>1. Copies(Put(q, m), k) = C
    <3>1. \A p \in Message \X Nat : p[1].pick = k => Put(q, m)[p[1]] = q[p[1]]
      BY <1>1, <1>3
    <3>2. QED
      BY <3>1 DEF Copies
  <2>2. Cardinality(C) \in Nat
    BY FS_CardinalityType
  <2>3. QED
    BY <1>3, <2>1, <2>2
<1>4. QED
  BY <1>2, <1>3

LEMMA TakeCopies ==
    ASSUME NEW q \in [Message -> Nat], NEW m \in Message, NEW k \in Picks,
           IsFiniteSet(Copies(q, k)), q[m] > 0
    PROVE  /\ IsFiniteSet(Copies(Take(q, m), k))
           /\ Cardinality(Copies(Take(q, m), k))
                = Cardinality(Copies(q, k)) - (IF m.pick = k THEN 1 ELSE 0)
<1>1. Take(q, m) \in [Message -> Nat] /\ q = Put(Take(q, m), m)
  <2>1. Take(q, m) \in [Message -> Nat]
    BY QueueTyped
  <2>2. \A n \in Message : Put(Take(q, m), m)[n] = q[n]
    BY <2>1 DEF Put, Take
  <2>3. Put(Take(q, m), m) \in [Message -> Nat]
    BY <2>1, QueueTyped
  <2>4. QED
    BY <2>1, <2>2, <2>3
<1>2. IsFiniteSet(Copies(Take(q, m), k))
  <2>1. \A n \in Message : Take(q, m)[n] <= q[n] /\ Take(q, m)[n] \in Nat
    BY <1>1 DEF Take
  <2>2. Copies(Take(q, m), k) \subseteq Copies(q, k)
    BY <2>1 DEF Copies
  <2>3. QED
    BY <2>2, FS_Subset
<1>3. PICK r \in [Message -> Nat] : r = Take(q, m) /\ q = Put(r, m)
  BY <1>1
<1>4. Cardinality(Copies(q, k)) = Cardinality(Copies(r, k)) + (IF m.pick = k THEN 1 ELSE 0)
  BY <1>2, <1>3, PutCopies
<1>5. Cardinality(Copies(r, k)) \in Nat
  BY <1>2, <1>3, FS_CardinalityType
<1>6. Cardinality(Copies(r, k)) = Cardinality(Copies(q, k)) - (IF m.pick = k THEN 1 ELSE 0)
  <2>1. CASE m.pick = k
    BY <1>4, <1>5, <2>1
  <2>2. CASE m.pick # k
    BY <1>4, <1>5, <2>2
  <2>3. QED
    BY <2>1, <2>2
<1>7. QED
  BY <1>2, <1>3, <1>6

(* A set that changes at one element.                                      *)
LEMMA OneElement ==
    ASSUME NEW S, NEW T, NEW w, IsFiniteSet(S), S \ {w} = T \ {w}
    PROVE  /\ IsFiniteSet(T) /\ Cardinality(S) \in Nat /\ Cardinality(T) \in Nat
           /\ Cardinality(T) + (IF w \in S THEN 1 ELSE 0)
                = Cardinality(S) + (IF w \in T THEN 1 ELSE 0)
<1>1. /\ IsFiniteSet(S \ {w}) /\ Cardinality(S) \in Nat
      /\ Cardinality(S \ {w}) = IF w \in S THEN Cardinality(S) - 1 ELSE Cardinality(S)
  BY FS_RemoveElement, FS_CardinalityType
<1>2. Cardinality(S \ {w}) \in Nat
  BY <1>1, FS_CardinalityType
<1>3. /\ IsFiniteSet((T \ {w}) \cup {w})
      /\ Cardinality((T \ {w}) \cup {w}) = Cardinality(T \ {w}) + 1
  <2>1. IsFiniteSet(T \ {w}) /\ w \notin T \ {w}
    BY <1>1
  <2>2. QED
    BY <2>1, FS_AddElement
<1>4. CASE w \in T
  <2>1. (T \ {w}) \cup {w} = T
    BY <1>4
  <2>2. IsFiniteSet(T) /\ Cardinality(T) = Cardinality(S \ {w}) + 1
    BY <1>3, <2>1
  <2>3. QED
    BY <1>1, <1>2, <1>4, <2>2
<1>5. CASE w \notin T
  <2>1. S \ {w} = T
    BY <1>5
  <2>2. IsFiniteSet(T) /\ Cardinality(T) = Cardinality(S \ {w})
    BY <1>1, <2>1
  <2>3. QED
    BY <1>1, <1>2, <1>5, <2>2
<1>6. QED
  BY <1>4, <1>5

-----------------------------------------------------------------------------
(* What one step may do to the books of a pick.                            *)
One(w, S) == IF w \in S THEN 1 ELSE 0

(* Only worker w moves.                                                    *)
OnlyMoves(w) ==
    \A v \in Workers \ {w} : pc'[v] = pc[v] /\ held'[v] = held[v] /\ open'[v] = open[v]

LEMMA WorkerBooks ==
    ASSUME NEW k \in Picks, Finite(k), NEW w \in Workers, OnlyMoves(w)
    PROVE  /\ IsFiniteSet(Acting(k)') /\ IsFiniteSet(Reporting(k)')
           /\ IsFiniteSet(Erring(k)') /\ IsFiniteSet(Completing(k)')
           /\ Cardinality(Acting(k)') + One(w, Acting(k))
                = Cardinality(Acting(k)) + One(w, Acting(k)')
           /\ Cardinality(Reporting(k)') + One(w, Reporting(k))
                = Cardinality(Reporting(k)) + One(w, Reporting(k)')
           /\ Cardinality(Erring(k)') + One(w, Erring(k))
                = Cardinality(Erring(k)) + One(w, Erring(k)')
           /\ Cardinality(Completing(k)') + One(w, Completing(k))
                = Cardinality(Completing(k)) + One(w, Completing(k)')
<1>1. Acting(k) \ {w} = Acting(k)' \ {w}
  BY DEF OnlyMoves, Acting, Holds
<1>2. Reporting(k) \ {w} = Reporting(k)' \ {w}
  BY DEF OnlyMoves, Reporting, Holds
<1>3. Erring(k) \ {w} = Erring(k)' \ {w}
  BY DEF OnlyMoves, Erring, Holds
<1>4. Completing(k) \ {w} = Completing(k)' \ {w}
  BY DEF OnlyMoves, Completing, Holds
<1>5. /\ IsFiniteSet(Acting(k)) /\ IsFiniteSet(Reporting(k))
      /\ IsFiniteSet(Erring(k)) /\ IsFiniteSet(Completing(k))
  BY DEF Finite
<1>6. QED
  BY <1>1, <1>2, <1>3, <1>4, <1>5, OneElement DEF One

(* The entries are numbers.                                                *)
LEMMA BooksTyped ==
    ASSUME TypeInv, NEW k \in Picks, Finite(k)
    PROVE  /\ Cardinality(Copies(ready, k)) \in Nat /\ Cardinality(Copies(delayed, k)) \in Nat
           /\ Cardinality(Acting(k)) \in Nat /\ Cardinality(Reporting(k)) \in Nat
           /\ Cardinality(Erring(k)) \in Nat /\ Cardinality(Completing(k)) \in Nat
           /\ taken[k] \in Nat /\ completed[k] \in Nat /\ failed[k] \in Nat
           /\ late[k] \in Nat /\ errors[k] \in Nat /\ faults \in Nat /\ Asked(k) \in {0, 1}
  BY FS_CardinalityType DEF Finite, TypeInv, TypeOK, Asked

(* The books balance after a step of worker w that moves no message, if    *)
(* they do for w alone: who gains pays, or a fault does.                   *)
LEMMA StepBooks ==
    ASSUME TypeInv, TypeInv', NEW k \in Picks, Account(k), NEW w \in Workers, OnlyMoves(w),
           IsFiniteSet(Copies(ready, k)'), IsFiniteSet(Copies(delayed, k)'),
           published' = published,
           taken'[k] + failed'[k] + late'[k] + Queueing(k)' + One(w, Acting(k)') + faults
             <= taken[k] + failed[k] + late[k] + Queueing(k) + One(w, Acting(k)) + faults',
           completed'[k] + failed'[k] + Queueing(k)' + One(w, Reporting(k)') + faults
             <= completed[k] + failed[k] + Queueing(k) + One(w, Reporting(k)) + faults',
           k \notin Malformed =>
             errors'[k] + One(w, Erring(k)') + faults <= errors[k] + One(w, Erring(k)) + faults',
           completed'[k] + One(w, Completing(k)') + taken[k]
             <= completed[k] + One(w, Completing(k)) + taken'[k]
    PROVE  Account(k)'
<1>1. Finite(k) /\ Finite(k)'
  BY WorkerBooks DEF Account, Finite
<1>2. /\ Cardinality(Copies(ready, k)) \in Nat /\ Cardinality(Copies(delayed, k)) \in Nat
      /\ Cardinality(Acting(k)) \in Nat /\ Cardinality(Reporting(k)) \in Nat
      /\ Cardinality(Erring(k)) \in Nat /\ Cardinality(Completing(k)) \in Nat
      /\ taken[k] \in Nat /\ completed[k] \in Nat /\ failed[k] \in Nat
      /\ late[k] \in Nat /\ errors[k] \in Nat /\ faults \in Nat /\ Asked(k) \in {0, 1}
  BY <1>1, BooksTyped
<1>3. /\ Cardinality(Copies(ready, k)') \in Nat /\ Cardinality(Copies(delayed, k)') \in Nat
      /\ Cardinality(Acting(k)') \in Nat /\ Cardinality(Reporting(k)') \in Nat
      /\ Cardinality(Erring(k)') \in Nat /\ Cardinality(Completing(k)') \in Nat
      /\ taken'[k] \in Nat /\ completed'[k] \in Nat /\ failed'[k] \in Nat
      /\ late'[k] \in Nat /\ errors'[k] \in Nat /\ faults' \in Nat
  BY <1>1, FS_CardinalityType DEF Finite, TypeInv, TypeOK
<1>4. Asked(k)' = Asked(k)
  BY DEF Asked
<1>5. Queueing(k) \in Nat /\ Queueing(k)' \in Nat
  BY <1>2, <1>3 DEF Queueing
<1>6. \A S : One(w, S) \in {0, 1}
  BY DEF One
<1>7. taken'[k] + failed'[k] + late'[k] + Queueing(k)' + Cardinality(Acting(k)')
        <= Asked(k)' + faults'
  <2>1. Cardinality(Acting(k)') + One(w, Acting(k)) = Cardinality(Acting(k)) + One(w, Acting(k)')
    BY <1>1, WorkerBooks
  <2>2. taken[k] + failed[k] + late[k] + Queueing(k) + Cardinality(Acting(k))
          <= Asked(k) + faults
    BY DEF Account
  <2>3. QED
    BY <1>2, <1>3, <1>4, <1>5, <1>6, <2>1, <2>2
<1>8. completed'[k] + failed'[k] + Queueing(k)' + Cardinality(Reporting(k)')
        <= Asked(k)' + faults'
  <2>1. Cardinality(Reporting(k)') + One(w, Reporting(k))
          = Cardinality(Reporting(k)) + One(w, Reporting(k)')
    BY <1>1, WorkerBooks
  <2>2. completed[k] + failed[k] + Queueing(k) + Cardinality(Reporting(k)) <= Asked(k) + faults
    BY DEF Account
  <2>3. QED
    BY <1>2, <1>3, <1>4, <1>5, <1>6, <2>1, <2>2
<1>9. k \notin Malformed => errors'[k] + Cardinality(Erring(k)') <= faults'
  <2>1. Cardinality(Erring(k)') + One(w, Erring(k)) = Cardinality(Erring(k)) + One(w, Erring(k)')
    BY <1>1, WorkerBooks
  <2>2. k \notin Malformed => errors[k] + Cardinality(Erring(k)) <= faults
    BY DEF Account
  <2>3. QED
    BY <1>2, <1>3, <1>6, <2>1, <2>2
<1>10. completed'[k] + Cardinality(Completing(k)') <= taken'[k]
  <2>1. Cardinality(Completing(k)') + One(w, Completing(k))
          = Cardinality(Completing(k)) + One(w, Completing(k)')
    BY <1>1, WorkerBooks
  <2>2. completed[k] + Cardinality(Completing(k)) <= taken[k]
    BY DEF Account
  <2>3. QED
    BY <1>2, <1>3, <1>6, <2>1, <2>2
<1>11. QED
  BY <1>1, <1>7, <1>8, <1>9, <1>10 DEF Account

-----------------------------------------------------------------------------
(* The books through every step.                                           *)

(* The ways the queues change.                                             *)
LEMMA QueueBooks ==
    ASSUME TypeInv, NEW k \in Picks, Finite(k)
    PROVE  /\ UNCHANGED <<ready, delayed>> =>
                /\ IsFiniteSet(Copies(ready, k)') /\ IsFiniteSet(Copies(delayed, k)')
                /\ Queueing(k)' = Queueing(k)
           /\ \A m \in Message :
                ready' = Put(ready, m) /\ delayed' = delayed =>
                  /\ IsFiniteSet(Copies(ready, k)') /\ IsFiniteSet(Copies(delayed, k)')
                  /\ Queueing(k)' = Queueing(k) + (IF m.pick = k THEN 1 ELSE 0)
           /\ \A m \in Message :
                ready' = ready /\ delayed' = Put(delayed, m) =>
                  /\ IsFiniteSet(Copies(ready, k)') /\ IsFiniteSet(Copies(delayed, k)')
                  /\ Queueing(k)' = Queueing(k) + (IF m.pick = k THEN 1 ELSE 0)
           /\ \A m \in Message :
                ready[m] > 0 /\ ready' = Take(ready, m) /\ delayed' = delayed =>
                  /\ IsFiniteSet(Copies(ready, k)') /\ IsFiniteSet(Copies(delayed, k)')
                  /\ Queueing(k)' = Queueing(k) - (IF m.pick = k THEN 1 ELSE 0)
           /\ \A m \in Message :
                delayed[m] > 0 /\ ready' = Put(ready, m) /\ delayed' = Take(delayed, m) =>
                  /\ IsFiniteSet(Copies(ready, k)') /\ IsFiniteSet(Copies(delayed, k)')
                  /\ Queueing(k)' = Queueing(k)
<1>1. /\ ready \in [Message -> Nat] /\ delayed \in [Message -> Nat]
      /\ IsFiniteSet(Copies(ready, k)) /\ IsFiniteSet(Copies(delayed, k))
      /\ Cardinality(Copies(ready, k)) \in Nat /\ Cardinality(Copies(delayed, k)) \in Nat
  BY BooksTyped DEF TypeInv, TypeOK, Finite
<1>2. /\ Copies(ready, k)' = Copies(ready', k)
      /\ Copies(delayed, k)' = Copies(delayed', k)
  BY DEF Copies
<1>3. ASSUME UNCHANGED <<ready, delayed>>
      PROVE  /\ IsFiniteSet(Copies(ready, k)') /\ IsFiniteSet(Copies(delayed, k)')
             /\ Queueing(k)' = Queueing(k)
  BY <1>1, <1>2, <1>3 DEF Queueing
<1>4. ASSUME NEW m \in Message
      PROVE  /\ ready' = Put(ready, m) /\ delayed' = delayed =>
                  /\ IsFiniteSet(Copies(ready, k)') /\ IsFiniteSet(Copies(delayed, k)')
                  /\ Queueing(k)' = Queueing(k) + (IF m.pick = k THEN 1 ELSE 0)
             /\ ready' = ready /\ delayed' = Put(delayed, m) =>
                  /\ IsFiniteSet(Copies(ready, k)') /\ IsFiniteSet(Copies(delayed, k)')
                  /\ Queueing(k)' = Queueing(k) + (IF m.pick = k THEN 1 ELSE 0)
             /\ ready[m] > 0 /\ ready' = Take(ready, m) /\ delayed' = delayed =>
                  /\ IsFiniteSet(Copies(ready, k)') /\ IsFiniteSet(Copies(delayed, k)')
                  /\ Queueing(k)' = Queueing(k) - (IF m.pick = k THEN 1 ELSE 0)
             /\ delayed[m] > 0 /\ ready' = Put(ready, m) /\ delayed' = Take(delayed, m) =>
                  /\ IsFiniteSet(Copies(ready, k)') /\ IsFiniteSet(Copies(delayed, k)')
                  /\ Queueing(k)' = Queueing(k)
  <2>1. \A q \in {ready, delayed} :
          /\ IsFiniteSet(Copies(Put(q, m), k))
          /\ Cardinality(Copies(Put(q, m), k))
               = Cardinality(Copies(q, k)) + (IF m.pick = k THEN 1 ELSE 0)
    BY <1>1, PutCopies
  <2>2. \A q \in {ready, delayed} : q[m] > 0 =>
          /\ IsFiniteSet(Copies(Take(q, m), k))
          /\ Cardinality(Copies(Take(q, m), k))
               = Cardinality(Copies(q, k)) - (IF m.pick = k THEN 1 ELSE 0)
    BY <1>1, TakeCopies
  <2>3. CASE m.pick = k
    BY <1>1, <1>2, <2>1, <2>2, <2>3 DEF Queueing
  <2>4. CASE m.pick # k
    BY <1>1, <1>2, <2>1, <2>2, <2>4 DEF Queueing
  <2>5. QED
    BY <2>3, <2>4
<1>5. QED
  BY <1>3, <1>4

(* Publishing, expiring, editing and late UPDATEs move no worker.          *)
LEMMA IdleBooks ==
    ASSUME TypeInv, TypeInv', NEW k \in Picks, Account(k), UNCHANGED <<pc, held, open>>,
           UNCHANGED <<outcomes, errors, faults>>,
           taken[k] <= taken'[k], taken'[k] + late'[k] <= taken[k] + late[k],
           IsFiniteSet(Copies(ready, k)'), IsFiniteSet(Copies(delayed, k)'),
           Queueing(k)' + Asked(k) <= Queueing(k) + Asked(k)'
    PROVE  Account(k)'
<1>1. /\ Acting(k)' = Acting(k) /\ Reporting(k)' = Reporting(k)
      /\ Erring(k)' = Erring(k) /\ Completing(k)' = Completing(k)
  BY DEF Acting, Reporting, Erring, Completing, Holds
<1>2. UNCHANGED <<completed, failed>>
  BY DEF outcomes
<1>3. Finite(k)'
  BY <1>1 DEF Finite, Account
<1>4. /\ Cardinality(Copies(ready, k)) \in Nat /\ Cardinality(Copies(delayed, k)) \in Nat
      /\ Cardinality(Acting(k)) \in Nat /\ Cardinality(Reporting(k)) \in Nat
      /\ Cardinality(Erring(k)) \in Nat /\ Cardinality(Completing(k)) \in Nat
      /\ taken[k] \in Nat /\ completed[k] \in Nat /\ failed[k] \in Nat
      /\ late[k] \in Nat /\ errors[k] \in Nat /\ faults \in Nat /\ Asked(k) \in {0, 1}
  BY BooksTyped DEF Account
<1>5. Queueing(k) \in Nat /\ Queueing(k)' \in Nat /\ Asked(k)' \in {0, 1}
  <2>1. /\ Cardinality(Copies(ready, k)') \in Nat /\ Cardinality(Copies(delayed, k)') \in Nat
    BY FS_CardinalityType
  <2>2. Asked(k)' \in {0, 1}
    BY DEF Asked
  <2>3. QED
    BY <1>4, <2>1, <2>2 DEF Queueing
<1>6. taken'[k] \in Nat /\ late'[k] \in Nat
  BY DEF TypeInv, TypeOK
<1>7. QED
  BY <1>1, <1>2, <1>3, <1>4, <1>5, <1>6 DEF Account

(* What a worker's step leaves alone.                                      *)
LEMMA WorkerStep ==
    ASSUME TypeInv, NEW w \in Workers, Step(w) \/ Faulty(w) \/ Restart(w)
    PROVE  /\ OnlyMoves(w) /\ published' = published
           /\ faults' \in {faults, faults + 1}
           /\ held'[w] \in {held[w], NoMessage}
<1>1. CASE Step(w)
  BY <1>1 DEF Step, Reject, Decrement, Unmatched, Explain, Emit, OnError, Ack, TakesStock,
              Moves, OnlyMoves, TypeInv, TypeOK
<1>2. CASE Faulty(w)
  BY <1>2 DEF Faulty, DatabaseFails, ResultLost, Crash, Disconnect, TakesStock, Fault,
              Moves, OnlyMoves, TypeInv, TypeOK
<1>3. CASE Restart(w)
  BY <1>3 DEF Restart, Moves, OnlyMoves, TypeInv, TypeOK
<1>4. QED
  BY <1>1, <1>2, <1>3

(* A worker's step does not touch the books of another pick.               *)
LEMMA OtherBooks ==
    ASSUME TypeInv, TypeInv', NEW k \in Picks, Account(k), NEW w \in Workers,
           Step(w) \/ Faulty(w) \/ Restart(w), ~Holds(w, k)
    PROVE  Account(k)'
<1>1. Finite(k) /\ NoMessage \notin Message
  BY PipelineAssumption DEF Account
<1>2. held[w] \in Message => held[w].pick # k
  BY DEF Holds
<1>3. /\ taken'[k] = taken[k] /\ completed'[k] = completed[k]
      /\ failed'[k] = failed[k] /\ errors'[k] = errors[k] /\ late'[k] = late[k]
  <2>1. pc[w] \in Busy => held[w] \in Message
    BY DEF TypeInv, WorkerInv
  <2>2. /\ taken' \in {taken, Counted(taken, held[w].pick)}
        /\ completed' \in {completed, Counted(completed, held[w].pick)}
        /\ failed' \in {failed, Counted(failed, held[w].pick)}
        /\ errors' \in {errors, Counted(errors, held[w].pick)}
        /\ late' \in {late, Counted(late, held[w].pick)}
    BY DEF Step, Reject, Decrement, Unmatched, Explain, Emit, OnError, Ack, TakesStock,
           Commits, LeavesUpdate, Faulty, DatabaseFails, ResultLost, Crash, Disconnect,
           Restart, outcomes
  <2>3. pc[w] \notin Busy => UNCHANGED <<taken, completed, failed, errors, late>>
    BY DEF Step, Reject, Decrement, Unmatched, Explain, Emit, OnError, Ack, TakesStock,
           Updating, LeavesUpdate, Faulty, DatabaseFails, ResultLost, Crash, Disconnect,
           Restart, outcomes, Busy
  <2>4. /\ taken \in [Picks -> Nat] /\ completed \in [Picks -> Nat]
        /\ failed \in [Picks -> Nat] /\ errors \in [Picks -> Nat]
        /\ late \in [Picks -> Nat]
    BY DEF TypeInv, TypeOK
  <2>5. QED
    BY <1>2, <2>1, <2>2, <2>3, <2>4 DEF Counted
<1>4. /\ IsFiniteSet(Copies(ready, k)') /\ IsFiniteSet(Copies(delayed, k)')
      /\ Queueing(k)' = Queueing(k)
  <2>0. Queueing(k) \in Nat
    BY <1>1, BooksTyped DEF Queueing
  <2>1. CASE UNCHANGED <<ready, delayed>>
    BY <1>1, <2>1, QueueBooks
  <2>2. CASE OnError(w) /\ ~UNCHANGED <<ready, delayed>>
    <3>1. /\ held[w] \in Message /\ held[w].retries < MaxRetries
          /\ ready' = ready /\ delayed' = Put(delayed, Retried(held[w]))
      BY <2>2 DEF OnError, TypeInv, WorkerInv, Busy
    <3>2. Retried(held[w]) \in Message /\ Retried(held[w]).pick # k
      BY <1>2, <3>1, RetryTyped
    <3>3. QED
      BY <1>1, <2>0, <3>1, <3>2, QueueBooks
  <2>3. CASE (Crash(w) \/ Disconnect(w)) /\ ~UNCHANGED <<ready, delayed>>
    <3>1. held[w] \in Message /\ ready' = Put(ready, held[w]) /\ delayed' = delayed
      BY <2>3 DEF Crash, Disconnect, Requeued, TypeInv, TypeOK
    <3>2. QED
      BY <1>1, <1>2, <2>0, <3>1, QueueBooks
  <2>4. QED
    BY <2>1, <2>2, <2>3
       DEF Step, Reject, Decrement, Unmatched, Explain, Emit, Ack, TakesStock,
           Faulty, DatabaseFails, ResultLost, Restart, queues
<1>5. ~Holds(w, k)'
  BY <1>1, <1>2, WorkerStep DEF Holds
<1>6. /\ One(w, Acting(k)) = 0 /\ One(w, Acting(k)') = 0
      /\ One(w, Reporting(k)) = 0 /\ One(w, Reporting(k)') = 0
      /\ One(w, Erring(k)) = 0 /\ One(w, Erring(k)') = 0
      /\ One(w, Completing(k)) = 0 /\ One(w, Completing(k)') = 0
  BY <1>5 DEF One, Acting, Reporting, Erring, Completing
<1>7. /\ Cardinality(Copies(ready, k)) \in Nat /\ Cardinality(Copies(delayed, k)) \in Nat
      /\ taken[k] \in Nat /\ completed[k] \in Nat /\ failed[k] \in Nat
      /\ late[k] \in Nat /\ errors[k] \in Nat /\ faults \in Nat
  BY <1>1, BooksTyped
<1>8. Queueing(k) \in Nat /\ faults <= faults' /\ faults' \in Nat
  BY <1>7, WorkerStep DEF Queueing
<1>9. /\ taken'[k] + failed'[k] + late'[k] + Queueing(k)' + One(w, Acting(k)') + faults
             <= taken[k] + failed[k] + late[k] + Queueing(k) + One(w, Acting(k)) + faults'
      /\ completed'[k] + failed'[k] + Queueing(k)' + One(w, Reporting(k)') + faults
             <= completed[k] + failed[k] + Queueing(k) + One(w, Reporting(k)) + faults'
      /\ errors'[k] + One(w, Erring(k)') + faults <= errors[k] + One(w, Erring(k)) + faults'
      /\ completed'[k] + One(w, Completing(k)') + taken[k]
             <= completed[k] + One(w, Completing(k)) + taken'[k]
  BY <1>3, <1>4, <1>6, <1>7, <1>8
<1>10. QED
  BY <1>4, <1>9, StepBooks, WorkerStep

(* The books of the pick a worker holds, when its step moves no message.   *)
LEMMA OwnBooks ==
    ASSUME TypeInv, TypeInv', NEW k \in Picks, Account(k), NEW w \in Workers,
           Reject(w) \/ Unmatched(w) \/ Explain(w) \/ Emit(w) \/ Ack(w) \/ Restart(w)
             \/ Decrement(w) \/ DatabaseFails(w) \/ ResultLost(w),
           Holds(w, k)
    PROVE  Account(k)'
<1>1. Finite(k) /\ held[w] \in Message /\ held[w].pick = k /\ NoMessage \notin Message
  BY PipelineAssumption DEF Account, Holds
<1>2. /\ IsFiniteSet(Copies(ready, k)') /\ IsFiniteSet(Copies(delayed, k)')
      /\ Queueing(k)' = Queueing(k)
  <2>1. UNCHANGED <<ready, delayed>>
    BY DEF Reject, Unmatched, Explain, Emit, Ack, Restart, Decrement, DatabaseFails,
           ResultLost, TakesStock, queues
  <2>2. QED
    BY <1>1, <2>1, QueueBooks
<1>3. /\ Cardinality(Copies(ready, k)) \in Nat /\ Cardinality(Copies(delayed, k)) \in Nat
      /\ taken[k] \in Nat /\ completed[k] \in Nat /\ failed[k] \in Nat
      /\ late[k] \in Nat /\ errors[k] \in Nat /\ faults \in Nat
  BY <1>1, BooksTyped
<1>4. Queueing(k) \in Nat /\ \A S : One(w, S) \in {0, 1}
  BY <1>3 DEF Queueing, One
<1>5. /\ taken \in [Picks -> Nat] /\ completed \in [Picks -> Nat]
      /\ failed \in [Picks -> Nat] /\ errors \in [Picks -> Nat]
      /\ pc \in [Workers -> States] /\ held \in [Workers -> Message \cup {NoMessage}]
      /\ open \in [Workers -> BOOLEAN] /\ late \in [Picks -> Nat]
  BY DEF TypeInv, TypeOK
<1>6. /\ One(w, Acting(k)) = IF \/ pc[w] \in {"handle", "recheck", "failed"}
                                \/ pc[w] = "error" /\ open[w] THEN 1 ELSE 0
      /\ One(w, Reporting(k)) = IF open[w] /\ pc[w] \in Busy \ {"ack"} THEN 1 ELSE 0
      /\ One(w, Erring(k)) = IF pc[w] = "error" /\ open[w] THEN 1 ELSE 0
      /\ One(w, Completing(k)) = IF pc[w] = "completed" THEN 1 ELSE 0
  BY DEF One, Acting, Reporting, Erring, Completing
<1>7. /\ One(w, Acting(k)') = IF Holds(w, k)' /\ (\/ pc'[w] \in {"handle", "recheck", "failed"}
                                                  \/ pc'[w] = "error" /\ open'[w])
                                THEN 1 ELSE 0
      /\ One(w, Reporting(k)') = IF Holds(w, k)' /\ open'[w] /\ pc'[w] \in Busy \ {"ack"}
                                   THEN 1 ELSE 0
      /\ One(w, Erring(k)') = IF Holds(w, k)' /\ pc'[w] = "error" /\ open'[w] THEN 1 ELSE 0
      /\ One(w, Completing(k)') = IF Holds(w, k)' /\ pc'[w] = "completed" THEN 1 ELSE 0
  BY DEF One, Acting, Reporting, Erring, Completing
<1>8. CASE Reject(w)
  <2>1. /\ pc[w] = "handle" /\ pc'[w] = "error" /\ open'[w] = open[w] /\ k \in Malformed
        /\ UNCHANGED <<taken, completed, failed, late, errors, faults>>
    BY <1>1, <1>5, <1>8 DEF Reject, Moves, outcomes
  <2>2. QED
    BY <1>2, <1>3, <1>4, <1>6, <1>7, <1>8, <2>1, StepBooks, WorkerStep DEF Step, Busy
<1>9. CASE Unmatched(w) \/ Explain(w)
  <2>1. /\ pc[w] \in {"handle", "recheck"} /\ pc'[w] \in {"recheck", "failed"}
        /\ open'[w] = open[w] /\ UNCHANGED <<taken, completed, failed, late, errors, faults>>
    BY <1>5, <1>9 DEF Unmatched, Updating, Explain, Moves, outcomes
  <2>2. QED
    BY <1>2, <1>3, <1>4, <1>6, <1>7, <1>9, <2>1, StepBooks, WorkerStep DEF Step, Busy
<1>10. CASE Ack(w) \/ Restart(w)
  <2>1. /\ pc[w] \notin Busy \ {"ack"} /\ ~Holds(w, k)'
        /\ UNCHANGED <<taken, completed, failed, late, errors, faults>>
    BY <1>1, <1>5, <1>10 DEF Ack, Restart, Moves, outcomes, Holds, Busy
  <2>2. QED
    BY <1>2, <1>3, <1>4, <1>6, <1>7, <1>10, <2>1, StepBooks, WorkerStep DEF Step, Busy
<1>11. CASE Decrement(w) \/ ResultLost(w)
  <2>1. /\ pc[w] = "handle" /\ open'[w] = open[w]
        /\ taken'[k] = taken[k] + 1 /\ UNCHANGED <<completed, failed, late, errors>>
    BY <1>1, <1>5, <1>11 DEF Decrement, ResultLost, TakesStock, Updating, Commits,
                             Counted, outcomes
  <2>2. \/ pc'[w] = "completed" /\ faults' = faults
        \/ pc'[w] = "error" /\ faults' = faults + 1
    BY <1>5, <1>11 DEF Decrement, ResultLost, Moves, Fault
  <2>3. CASE pc'[w] = "completed" /\ faults' = faults
    BY <1>2, <1>3, <1>4, <1>6, <1>7, <1>11, <2>1, <2>3, StepBooks, WorkerStep
       DEF Step, Faulty, Busy
  <2>4. CASE pc'[w] = "error" /\ faults' = faults + 1
    BY <1>2, <1>3, <1>4, <1>6, <1>7, <1>11, <2>1, <2>4, StepBooks, WorkerStep
       DEF Step, Faulty, Busy
  <2>5. QED
    BY <2>2, <2>3, <2>4
<1>12. CASE DatabaseFails(w)
  <2>1. /\ pc[w] \in {"handle", "recheck"} /\ pc'[w] = "error" /\ open'[w] = open[w]
        /\ faults' = faults + 1 /\ UNCHANGED <<taken, completed, failed, errors>>
        /\ late'[k] \in {late[k], late[k] + 1}
    BY <1>1, <1>5, <1>12 DEF DatabaseFails, LeavesUpdate, Counted, Moves, Fault, outcomes
  <2>2. QED
    BY <1>2, <1>3, <1>4, <1>6, <1>7, <1>12, <2>1, StepBooks, WorkerStep DEF Faulty, Busy
<1>13. CASE Emit(w) /\ open[w]
  <2>1. /\ pc[w] \in {"completed", "failed"} /\ pc'[w] = "ack" /\ open'[w] = open[w]
        /\ UNCHANGED <<taken, late, errors, faults>>
        /\ completed'[k] = completed[k] + (IF pc[w] = "completed" THEN 1 ELSE 0)
        /\ failed'[k] = failed[k] + (IF pc[w] = "failed" THEN 1 ELSE 0)
    BY <1>1, <1>3, <1>5, <1>13 DEF Emit, Moves, Counted
  <2>2. CASE pc[w] = "completed"
    BY <1>2, <1>3, <1>4, <1>6, <1>7, <1>13, <2>1, <2>2, StepBooks, WorkerStep DEF Step, Busy
  <2>3. CASE pc[w] = "failed"
    BY <1>2, <1>3, <1>4, <1>6, <1>7, <1>13, <2>1, <2>3, StepBooks, WorkerStep DEF Step, Busy
  <2>4. QED
    BY <2>1, <2>2, <2>3
<1>14. CASE Emit(w) /\ ~open[w]
  <2>1. /\ pc[w] \in {"completed", "failed"} /\ pc'[w] = "error" /\ open'[w] = open[w]
        /\ UNCHANGED <<taken, completed, failed, late, errors, faults>>
    BY <1>5, <1>14 DEF Emit, Moves, outcomes
  <2>2. QED
    BY <1>2, <1>3, <1>4, <1>6, <1>7, <1>14, <2>1, StepBooks, WorkerStep DEF Step, Busy
<1>15. QED
  BY <1>8, <1>9, <1>10, <1>11, <1>12, <1>13, <1>14

(* A failed attempt is counted, and moves to the delay queue if it may be  *)
(* made again.                                                             *)
LEMMA ErrorBooks ==
    ASSUME TypeInv, TypeInv', NEW k \in Picks, Account(k), NEW w \in Workers,
           OnError(w), Holds(w, k)
    PROVE  Account(k)'
<1>1. Finite(k) /\ held[w] \in Message /\ held[w].pick = k /\ NoMessage \notin Message
  BY PipelineAssumption DEF Account, Holds
<1>2. /\ Cardinality(Copies(ready, k)) \in Nat /\ Cardinality(Copies(delayed, k)) \in Nat
      /\ taken[k] \in Nat /\ completed[k] \in Nat /\ failed[k] \in Nat
      /\ late[k] \in Nat /\ errors[k] \in Nat /\ faults \in Nat
  BY <1>1, BooksTyped
<1>3. Queueing(k) \in Nat
  BY <1>2 DEF Queueing
<1>4. /\ errors \in [Picks -> Nat] /\ pc \in [Workers -> States]
      /\ held \in [Workers -> Message \cup {NoMessage}] /\ open \in [Workers -> BOOLEAN]
  BY DEF TypeInv, TypeOK
<1>5. /\ pc[w] = "error" /\ pc'[w] \in {"down", "ack"} /\ open'[w] = open[w]
      /\ UNCHANGED <<taken, completed, failed, late, faults>>
  BY <1>4 DEF OnError, Moves, outcomes
<1>6. /\ One(w, Acting(k)) = (IF open[w] THEN 1 ELSE 0)
      /\ One(w, Reporting(k)) = (IF open[w] THEN 1 ELSE 0)
      /\ One(w, Erring(k)) = (IF open[w] THEN 1 ELSE 0)
      /\ One(w, Completing(k)) = 0
      /\ One(w, Acting(k)') = 0 /\ One(w, Reporting(k)') = 0
      /\ One(w, Erring(k)') = 0 /\ One(w, Completing(k)') = 0
  BY <1>5 DEF One, Acting, Reporting, Erring, Completing, Busy
<1>7. CASE ~open[w]
  <2>1. UNCHANGED <<ready, delayed, errors>>
    BY <1>7 DEF OnError
  <2>2. /\ IsFiniteSet(Copies(ready, k)') /\ IsFiniteSet(Copies(delayed, k)')
        /\ Queueing(k)' = Queueing(k)
    BY <1>1, <2>1, QueueBooks
  <2>3. QED
    BY <1>2, <1>3, <1>5, <1>6, <1>7, <2>1, <2>2, StepBooks, WorkerStep DEF Step
<1>8. CASE open[w]
  <2>1. errors'[k] = errors[k] + 1 /\ ready' = ready
    BY <1>1, <1>4, <1>8 DEF OnError, Counted
  <2>2. /\ IsFiniteSet(Copies(ready, k)') /\ IsFiniteSet(Copies(delayed, k)')
        /\ Queueing(k)' \in {Queueing(k), Queueing(k) + 1}
    <3>1. CASE held[w].retries < MaxRetries
      <4>1. /\ delayed' = Put(delayed, Retried(held[w]))
            /\ Retried(held[w]) \in Message /\ Retried(held[w]).pick = k
        BY <1>1, <1>8, <3>1, RetryTyped DEF OnError
      <4>2. QED
        BY <1>1, <2>1, <4>1, QueueBooks
    <3>2. CASE ~(held[w].retries < MaxRetries)
      <4>1. delayed' = delayed
        BY <1>8, <3>2 DEF OnError
      <4>2. QED
        BY <1>1, <2>1, <4>1, QueueBooks
    <3>3. QED
      BY <3>1, <3>2
  <2>3. QED
    BY <1>2, <1>3, <1>5, <1>6, <1>8, <2>1, <2>2, StepBooks, WorkerStep DEF Step
<1>9. QED
  BY <1>7, <1>8

(* A lost connection puts the delivery back, and pays for it.              *)
LEMMA LossBooks ==
    ASSUME TypeInv, TypeInv', NEW k \in Picks, Account(k), NEW w \in Workers,
           Crash(w) \/ Disconnect(w), Holds(w, k)
    PROVE  Account(k)'
<1>1. Finite(k) /\ held[w] \in Message /\ held[w].pick = k /\ NoMessage \notin Message
  BY PipelineAssumption DEF Account, Holds
<1>2. /\ Cardinality(Copies(ready, k)) \in Nat /\ Cardinality(Copies(delayed, k)) \in Nat
      /\ taken[k] \in Nat /\ completed[k] \in Nat /\ failed[k] \in Nat
      /\ late[k] \in Nat /\ errors[k] \in Nat /\ faults \in Nat
  BY <1>1, BooksTyped
<1>3. Queueing(k) \in Nat
  BY <1>2 DEF Queueing
<1>4. /\ errors \in [Picks -> Nat] /\ pc \in [Workers -> States]
      /\ held \in [Workers -> Message \cup {NoMessage}] /\ open \in [Workers -> BOOLEAN]
      /\ late \in [Picks -> Nat] /\ late'[k] \in Nat
  BY DEF TypeInv, TypeOK
<1>5. /\ ready' = Requeued(w) /\ delayed' = delayed /\ faults' = faults + 1
      /\ ~open'[w]
      /\ UNCHANGED <<taken, completed, failed, errors>>
  BY <1>4 DEF Crash, Disconnect, Fault, outcomes
<1>6. /\ IsFiniteSet(Copies(ready, k)') /\ IsFiniteSet(Copies(delayed, k)')
      /\ Queueing(k)' = Queueing(k) + (IF open[w] THEN 1 ELSE 0)
  <2>1. CASE open[w]
    BY <1>1, <1>5, <2>1, QueueBooks DEF Requeued
  <2>2. CASE ~open[w]
    BY <1>1, <1>3, <1>5, <2>2, QueueBooks DEF Requeued
  <2>3. QED
    BY <2>1, <2>2
<1>7. /\ One(w, Reporting(k)') = 0 /\ One(w, Erring(k)') = 0
      /\ One(w, Acting(k)) \in {0, 1} /\ One(w, Reporting(k)) \in {0, 1}
      /\ One(w, Erring(k)) \in {0, 1} /\ One(w, Completing(k)) \in {0, 1}
      /\ One(w, Acting(k)') \in {0, 1} /\ One(w, Completing(k)') \in {0, 1}
  BY <1>5 DEF One, Reporting, Erring
<1>8. /\ late'[k] + One(w, Acting(k)') <= late[k] + One(w, Acting(k))
      /\ One(w, Completing(k)') <= One(w, Completing(k))
  <2>1. CASE Crash(w)
    <3>1. pc'[w] = "down"
      BY <1>4, <2>1 DEF Crash, Moves
    <3>2. One(w, Acting(k)') = 0 /\ One(w, Completing(k)') = 0
      BY <3>1 DEF One, Acting, Completing
    <3>3. CASE late' = late
      BY <1>2, <1>7, <3>2, <3>3
    <3>4. CASE Updating(w) /\ late' = Counted(late, held[w].pick)
      <4>1. One(w, Acting(k)) = 1
        BY <3>4 DEF Updating, One, Acting
      <4>2. late'[k] = late[k] + 1
        BY <1>1, <1>4, <3>4 DEF Counted
      <4>3. QED
        BY <1>2, <1>7, <3>2, <4>1, <4>2
    <3>5. QED
      BY <2>1, <3>3, <3>4 DEF Crash, LeavesUpdate
  <2>2. CASE Disconnect(w)
    <3>1. pc' = pc /\ held' = held /\ late' = late
      BY <2>2 DEF Disconnect
    <3>2. /\ w \in Acting(k)' => w \in Acting(k)
          /\ w \in Completing(k)' => w \in Completing(k)
      BY <1>5, <3>1 DEF Acting, Completing, Holds
    <3>3. /\ One(w, Acting(k)') <= One(w, Acting(k))
          /\ One(w, Completing(k)') <= One(w, Completing(k))
      BY <3>2 DEF One
    <3>4. QED
      BY <1>2, <1>7, <3>1, <3>3
  <2>3. QED
    BY <2>1, <2>2
<1>9. /\ taken'[k] + failed'[k] + late'[k] + Queueing(k)' + One(w, Acting(k)') + faults
             <= taken[k] + failed[k] + late[k] + Queueing(k) + One(w, Acting(k)) + faults'
      /\ completed'[k] + failed'[k] + Queueing(k)' + One(w, Reporting(k)') + faults
             <= completed[k] + failed[k] + Queueing(k) + One(w, Reporting(k)) + faults'
      /\ errors'[k] + One(w, Erring(k)') + faults <= errors[k] + One(w, Erring(k)) + faults'
      /\ completed'[k] + One(w, Completing(k)') + taken[k]
             <= completed[k] + One(w, Completing(k)) + taken'[k]
  BY <1>2, <1>3, <1>4, <1>5, <1>6, <1>7, <1>8
<1>10. QED
  BY <1>6, <1>9, StepBooks, WorkerStep DEF Faulty

(* A delivery takes one copy from the queue into one pair of hands.        *)
LEMMA DeliverBooks ==
    ASSUME TypeInv, TypeInv', NEW k \in Picks, Account(k), NEW w \in Workers,
           NEW m \in Message, Deliver(w, m)
    PROVE  Account(k)'
<1>1. Finite(k) /\ NoMessage \notin Message
  BY PipelineAssumption DEF Account
<1>2. /\ Cardinality(Copies(ready, k)) \in Nat /\ Cardinality(Copies(delayed, k)) \in Nat
      /\ taken[k] \in Nat /\ completed[k] \in Nat /\ failed[k] \in Nat
      /\ late[k] \in Nat /\ errors[k] \in Nat /\ faults \in Nat
  BY <1>1, BooksTyped
<1>3. Queueing(k) \in Nat
  BY <1>2 DEF Queueing
<1>4. /\ pc[w] = "idle" /\ pc'[w] = "handle" /\ held'[w] = m
      /\ OnlyMoves(w)
      /\ UNCHANGED <<published, taken, completed, failed, late, errors, faults>>
  BY DEF Deliver, TypeInv, TypeOK, OnlyMoves, outcomes
<1>5. /\ IsFiniteSet(Copies(ready, k)') /\ IsFiniteSet(Copies(delayed, k)')
      /\ Queueing(k)' = Queueing(k) - (IF m.pick = k THEN 1 ELSE 0)
  BY <1>1, QueueBooks DEF Deliver
<1>6. /\ One(w, Acting(k)) = 0 /\ One(w, Reporting(k)) = 0
      /\ One(w, Erring(k)) = 0 /\ One(w, Completing(k)) = 0
      /\ One(w, Acting(k)') \in {0, 1} /\ One(w, Reporting(k)') \in {0, 1}
      /\ One(w, Erring(k)') = 0 /\ One(w, Completing(k)') = 0
      /\ m.pick # k => One(w, Acting(k)') = 0 /\ One(w, Reporting(k)') = 0
  BY <1>4 DEF One, Acting, Reporting, Erring, Completing, Busy, Holds
<1>7. CASE m.pick = k
  BY <1>2, <1>3, <1>4, <1>5, <1>6, <1>7, StepBooks
<1>8. CASE m.pick # k
  BY <1>2, <1>3, <1>4, <1>5, <1>6, <1>8, StepBooks
<1>9. QED
  BY <1>7, <1>8

LEMMA AccountStep == TypeInv /\ AccountInv /\ [Next]_vars => AccountInv'
<1> SUFFICES ASSUME TypeInv, AccountInv, [Next]_vars, NEW k \in Picks PROVE Account(k)'
  BY DEF AccountInv
<1>1. TypeInv' /\ Account(k) /\ Finite(k)
  BY TypeStep DEF AccountInv, Account
<1>2. /\ Queueing(k) \in Nat /\ Asked(k) \in {0, 1}
      /\ taken[k] \in Nat /\ late[k] \in Nat
  BY <1>1, BooksTyped DEF Queueing
<1>3. ASSUME NEW j \in Picks, Publish(j) PROVE Account(k)'
  <2> DEFINE m == [pick |-> j, retries |-> 0]
  <2>1. m \in Message /\ m.pick = j
    BY PipelineAssumption DEF Message
  <2>2. /\ ready' = Put(ready, m) /\ delayed' = delayed
        /\ UNCHANGED <<pc, held, open, outcomes, taken, late, errors, faults>>
    BY <1>3 DEF Publish
  <2>3. Asked(k)' = Asked(k) + (IF j = k THEN 1 ELSE 0)
    BY <1>2, <1>3 DEF Publish, Asked
  <2> HIDE DEF m
  <2>4. /\ IsFiniteSet(Copies(ready, k)') /\ IsFiniteSet(Copies(delayed, k)')
        /\ Queueing(k)' = Queueing(k) + (IF j = k THEN 1 ELSE 0)
    BY <1>1, <2>1, <2>2, QueueBooks
  <2>5. Queueing(k)' + Asked(k) <= Queueing(k) + Asked(k)'
    BY <1>2, <2>3, <2>4
  <2>6. QED
    BY <1>1, <1>2, <2>2, <2>4, <2>5, IdleBooks
<1>4. ASSUME NEW m \in Message, Expire(m) PROVE Account(k)'
  <2>1. /\ delayed[m] > 0 /\ ready' = Put(ready, m) /\ delayed' = Take(delayed, m)
        /\ UNCHANGED <<published, pc, held, open, outcomes, taken, late, errors, faults>>
    BY <1>4 DEF Expire
  <2>2. /\ IsFiniteSet(Copies(ready, k)') /\ IsFiniteSet(Copies(delayed, k)')
        /\ Queueing(k)' = Queueing(k)
    BY <1>1, <2>1, QueueBooks
  <2>3. Asked(k)' = Asked(k)
    BY <2>1 DEF Asked
  <2>4. QED
    BY <1>1, <1>2, <2>1, <2>2, <2>3, IdleBooks
<1>5. CASE Edit \/ UNCHANGED vars
  <2>1. UNCHANGED <<ready, delayed, published, pc, held, open, outcomes, taken, late, errors, faults>>
    BY <1>5 DEF Edit, vars, queues
  <2>2. /\ IsFiniteSet(Copies(ready, k)') /\ IsFiniteSet(Copies(delayed, k)')
        /\ Queueing(k)' = Queueing(k)
    BY <1>1, <2>1, QueueBooks
  <2>3. Asked(k)' = Asked(k)
    BY <2>1 DEF Asked
  <2>4. QED
    BY <1>1, <1>2, <2>1, <2>2, <2>3, IdleBooks
<1>6. ASSUME NEW w \in Workers, NEW m \in Message, Deliver(w, m) PROVE Account(k)'
  BY <1>1, <1>6, DeliverBooks
<1>7. ASSUME NEW w \in Workers, Step(w) \/ Faulty(w) \/ Restart(w) PROVE Account(k)'
  <2>1. CASE ~Holds(w, k)
    BY <1>1, <1>7, <2>1, OtherBooks
  <2>2. CASE Holds(w, k)
    BY <1>1, <1>7, <2>2, OwnBooks, ErrorBooks, LossBooks DEF Step, Faulty
  <2>3. QED
    BY <2>1, <2>2
<1>8. ASSUME NEW j \in Picks, RunsLate(j) PROVE Account(k)'
  <2>1. /\ UNCHANGED <<ready, delayed, published, pc, held, open, outcomes, errors, faults>>
        /\ late[j] > 0 /\ late' = Uncounted(late, j)
        /\ taken' \in {taken, Counted(taken, j)}
    BY <1>8 DEF RunsLate, Commits, queues
  <2>2. /\ IsFiniteSet(Copies(ready, k)') /\ IsFiniteSet(Copies(delayed, k)')
        /\ Queueing(k)' = Queueing(k)
    BY <1>1, <2>1, QueueBooks
  <2>3. Asked(k)' = Asked(k)
    BY <2>1 DEF Asked
  <2>4. taken \in [Picks -> Nat] /\ late \in [Picks -> Nat]
    BY DEF TypeInv, TypeOK
  <2>5. taken[k] <= taken'[k] /\ taken'[k] + late'[k] <= taken[k] + late[k]
    BY <1>2, <2>1, <2>4 DEF Counted, Uncounted
  <2>6. QED
    BY <1>1, <1>2, <2>1, <2>2, <2>3, <2>5, IdleBooks
<1>9. QED
  BY <1>3, <1>4, <1>5, <1>6, <1>7, <1>8 DEF Next, Receive, Quiet

LEMMA AccountHolds == Spec => []AccountInv
<1>1. Init => AccountInv
  <2> SUFFICES ASSUME Init, NEW k \in Picks PROVE Account(k)
    BY DEF AccountInv
  <2>1. /\ Copies(ready, k) = {} /\ Copies(delayed, k) = {}
        /\ Acting(k) = {} /\ Reporting(k) = {} /\ Erring(k) = {} /\ Completing(k) = {}
    BY PipelineAssumption
       DEF Init, EmptyQueue, Copies, Acting, Reporting, Erring, Completing, Holds
  <2>2. /\ taken[k] = 0 /\ completed[k] = 0 /\ failed[k] = 0 /\ errors[k] = 0
        /\ late[k] = 0 /\ Asked(k) = 0 /\ faults = 0
    BY DEF Init, None, Asked
  <2>3. QED
    BY <2>1, <2>2, FS_EmptySet DEF Account, Finite, Queueing
<1>2. QED
  BY <1>1, AccountStep, TypeInvHolds, PTL DEF Spec

(* Every attempt of a pick beyond the first that reaches an effect, taking *)
(* its stock or publishing an outcome, is paid for by a fault: the workers,*)
(* their retries and the edits of the stock repeat nothing by themselves.  *)
THEOREM RepeatsArePaid == Spec => []RepeatsNeedFaults
<1>1. TypeInv /\ AccountInv => RepeatsNeedFaults
  <2> SUFFICES ASSUME TypeInv, AccountInv, NEW k \in Picks
               PROVE  /\ taken[k] + failed[k] <= 1 + faults
                      /\ completed[k] + failed[k] <= 1 + faults
    BY DEF RepeatsNeedFaults
  <2>1. Account(k) /\ Finite(k)
    BY DEF AccountInv, Account
  <2>2. /\ Cardinality(Copies(ready, k)) \in Nat /\ Cardinality(Copies(delayed, k)) \in Nat
        /\ Cardinality(Acting(k)) \in Nat /\ Cardinality(Reporting(k)) \in Nat
        /\ taken[k] \in Nat /\ completed[k] \in Nat /\ failed[k] \in Nat
        /\ late[k] \in Nat /\ faults \in Nat /\ Asked(k) \in {0, 1}
    BY <2>1, BooksTyped
  <2>3. Queueing(k) \in Nat
    BY <2>2 DEF Queueing
  <2>4. QED
    BY <2>1, <2>2, <2>3 DEF Account
<1>2. QED
  BY <1>1, AccountHolds, TypeInvHolds, PTL

-----------------------------------------------------------------------------
(* Where messages come from.                                               *)
LEMMA OriginStep == TypeInv /\ OriginInv /\ [Next]_vars => OriginInv'
<1> SUFFICES ASSUME TypeInv, OriginInv, [Next]_vars PROVE OriginInv'
  OBVIOUS
<1>t. /\ ready \in [Message -> Nat] /\ delayed \in [Message -> Nat]
      /\ held \in [Workers -> Message \cup {NoMessage}] /\ pc \in [Workers -> States]
      /\ NoMessage \notin Message /\ late \in [Picks -> Nat]
  BY PipelineAssumption DEF TypeInv, TypeOK
<1>1. ASSUME NEW j \in Picks, Publish(j) PROVE OriginInv'
  <2>1. \A m \in Message : ready'[m] > 0 => ready[m] > 0 \/ m.pick = j
    BY <1>1, <1>t DEF Publish, Put
  <2>2. published' = published \cup {j} /\ UNCHANGED <<delayed, pc, held, late>>
    BY <1>1 DEF Publish
  <2>3. QED
    BY <2>1, <2>2 DEF OriginInv
<1>2. ASSUME NEW m \in Message, Expire(m) PROVE OriginInv'
  <2>1. \A n \in Message : ready'[n] > 0 \/ delayed'[n] > 0 => ready[n] > 0 \/ delayed[n] > 0
    BY <1>2, <1>t DEF Expire, Put, Take
  <2>2. UNCHANGED <<published, pc, held, late>>
    BY <1>2 DEF Expire
  <2>3. QED
    BY <2>1, <2>2 DEF OriginInv
<1>3. ASSUME NEW w \in Workers, NEW m \in Message, Deliver(w, m) PROVE OriginInv'
  <2>1. \A n \in Message : ready'[n] > 0 => ready[n] > 0
    BY <1>3, <1>t DEF Deliver, Take
  <2>2. /\ held'[w] = m /\ pc'[w] = "handle" /\ m.pick \in published
        /\ \A v \in Workers \ {w} : held'[v] = held[v] /\ pc'[v] = pc[v]
        /\ UNCHANGED <<published, delayed, late>>
    BY <1>3, <1>t DEF Deliver, OriginInv
  <2>3. QED
    BY <2>1, <2>2 DEF OriginInv
<1>4. ASSUME NEW w \in Workers, Step(w) \/ Faulty(w) \/ Restart(w) PROVE OriginInv'
  <2>1. /\ OnlyMoves(w) /\ published' = published /\ held'[w] \in {held[w], NoMessage}
    BY <1>4, WorkerStep
  <2>2. \A m \in Message :
          ready'[m] > 0 \/ delayed'[m] > 0 =>
            \/ ready[m] > 0 \/ delayed[m] > 0
            \/ held[w] \in Message /\ m.pick = held[w].pick
    <3>1. CASE UNCHANGED <<ready, delayed>>
      BY <3>1
    <3>2. CASE OnError(w) /\ ~UNCHANGED <<ready, delayed>>
      <4>1. /\ held[w] \in Message /\ held[w].retries < MaxRetries
            /\ ready' = ready /\ delayed' = Put(delayed, Retried(held[w]))
        BY <3>2 DEF OnError, TypeInv, WorkerInv, Busy
      <4>2. QED
        BY <1>t, <4>1, RetryTyped DEF Put
    <3>3. CASE (Crash(w) \/ Disconnect(w)) /\ ~UNCHANGED <<ready, delayed>>
      <4>1. held[w] \in Message /\ ready' = Put(ready, held[w]) /\ delayed' = delayed
        BY <1>t, <3>3 DEF Crash, Disconnect, Requeued
      <4>2. QED
        BY <1>t, <4>1 DEF Put
    <3>4. QED
      BY <1>4, <3>1, <3>2, <3>3
         DEF Step, Reject, Decrement, Unmatched, Explain, Emit, Ack, TakesStock,
             Faulty, DatabaseFails, ResultLost, Restart, queues
  <2>3. pc'[w] \in {"recheck", "completed", "failed"} /\ held'[w] \in Message
          => held[w].pick \notin Malformed
    BY <1>4, <1>t, <2>1
       DEF Step, Reject, Decrement, Unmatched, Explain, Emit, OnError, Ack, TakesStock,
           Updating, Faulty, DatabaseFails, ResultLost, Crash, Disconnect, Restart, Moves, OriginInv
  <2>4. \A k \in Picks : late'[k] > 0 => k \in published /\ k \notin Malformed
    <3>1. CASE late' = late
      BY <3>1 DEF OriginInv
    <3>2. CASE Updating(w) /\ late' = Counted(late, held[w].pick)
      <4>1. held[w] \in Message
        BY <3>2 DEF Updating, TypeInv, WorkerInv, Busy
      <4>2. held[w].pick \in published /\ held[w].pick \notin Malformed
        BY <3>2, <4>1 DEF OriginInv, Updating
      <4>3. \A k \in Picks : late'[k] > 0 => late[k] > 0 \/ k = held[w].pick
        BY <1>t, <3>2 DEF Counted
      <4>4. QED
        BY <4>2, <4>3 DEF OriginInv
    <3>3. QED
      BY <1>4, <3>1, <3>2
         DEF Step, Reject, Decrement, Unmatched, Explain, Emit, OnError, Ack, TakesStock,
             Faulty, DatabaseFails, ResultLost, Crash, Disconnect, Restart, LeavesUpdate
  <2>5. QED
    BY <1>t, <2>1, <2>2, <2>3, <2>4 DEF OriginInv, OnlyMoves
<1>5. CASE Edit \/ UNCHANGED vars
  BY <1>5 DEF Edit, vars, queues, OriginInv
<1>6. ASSUME NEW j \in Picks, RunsLate(j) PROVE OriginInv'
  <2>1. /\ UNCHANGED <<ready, delayed, published, pc, held>>
        /\ late' = Uncounted(late, j)
    BY <1>6 DEF RunsLate, queues
  <2>2. \A k \in Picks : late'[k] > 0 => late[k] > 0
    BY <1>t, <2>1 DEF Uncounted
  <2>3. QED
    BY <2>1, <2>2 DEF OriginInv
<1>7. QED
  BY <1>1, <1>2, <1>3, <1>4, <1>5, <1>6 DEF Next, Receive, Quiet

-----------------------------------------------------------------------------
(* The refinement of PickContract.                                         *)
Books == TypeInv /\ BudgetInv /\ OriginInv /\ AccountInv

(* How the contract's view changes with one worker.                        *)
LEMMA ShortMoves ==
    ASSUME NEW w \in Workers, OnlyMoves(w)
    PROVE  /\ pc[w] \notin {"recheck", "failed"} /\ pc'[w] \notin {"recheck", "failed"}
                => Short' = Short
           /\ pc[w] \in {"recheck", "failed"} /\ pc'[w] \in {"recheck", "failed"}
                /\ held'[w] = held[w] => Short' = Short
           /\ pc[w] \notin {"recheck", "failed"} /\ pc'[w] \in {"recheck", "failed"}
                => Short' = Short \cup {held'[w].pick}
           /\ pc[w] \in {"recheck", "failed"} /\ pc'[w] \notin {"recheck", "failed"}
                => /\ held[w].pick \in Short
                   /\ Short' \in {Short, Short \ {held[w].pick}}
<1> DEFINE Others == {held[v].pick : v \in {u \in Workers \ {w} : pc[u] \in {"recheck", "failed"}}}
<1>1. Short = Others \cup (IF pc[w] \in {"recheck", "failed"} THEN {held[w].pick} ELSE {})
  BY DEF Short
<1>2. Short' = Others \cup (IF pc'[w] \in {"recheck", "failed"} THEN {held'[w].pick} ELSE {})
  BY DEF Short, OnlyMoves
<1> HIDE DEF Others
<1>3. QED
  BY <1>1, <1>2

(* What touches neither the stock, nor the counts, nor the view of short   *)
(* and dead-lettered picks is invisible.                                   *)
LEMMA Invisible ==
    ASSUME UNCHANGED <<table, published, dead, taken, completed, failed, faults>>,
           Short' = Short
    PROVE  UNCHANGED Contract!vars
<1>1. Stock' = Stock /\ DeadLettered' = DeadLettered
  BY DEF Stock, Exists, DeadLettered
<1>2. QED
  BY <1>1 DEF Contract!vars, Contract!reports

(* The guard under which a pick may have an effect.                        *)
LEMMA MayActNow ==
    ASSUME Books, NEW w \in Workers, held[w] \in Message, held[w].pick \notin Malformed,
           pc[w] \in {"handle", "failed"}, faults' \in {faults, faults + 1}
    PROVE  Contract!MayAct(held[w].pick)
<1>1. PICK k \in Picks : k = held[w].pick
  BY DEF Message
<1>2. k \in published
  BY <1>1 DEF Books, OriginInv
<1>3. Account(k) /\ Finite(k) /\ TypeInv
  BY DEF Books, AccountInv, Account
<1>4. w \in Acting(k)
  BY <1>1 DEF Acting, Holds
<1>5. Cardinality(Acting(k)) >= 1
  <2>1. IsFiniteSet(Acting(k)) /\ Cardinality(Acting(k)) \in Nat /\ Acting(k) # {}
    BY <1>3, <1>4, FS_CardinalityType DEF Finite
  <2>2. Cardinality(Acting(k)) # 0
    BY <2>1, FS_EmptySet
  <2>3. QED
    BY <2>1, <2>2
<1>6. /\ Cardinality(Copies(ready, k)) \in Nat /\ Cardinality(Copies(delayed, k)) \in Nat
      /\ Cardinality(Acting(k)) \in Nat
      /\ taken[k] \in Nat /\ failed[k] \in Nat /\ late[k] \in Nat
      /\ faults \in Nat /\ Asked(k) \in {0, 1}
  BY <1>3, BooksTyped
<1>7. Queueing(k) \in Nat
  BY <1>6 DEF Queueing
<1>8. taken[k] + failed[k] <= faults'
  BY <1>3, <1>5, <1>6, <1>7 DEF Account
<1>9. QED
  BY <1>1, <1>2, <1>8 DEF Contract!MayAct

(* An UPDATE left behind is paid for: its pick may still have an effect.   *)
LEMMA MayActLate ==
    ASSUME Books, NEW k \in Picks, late[k] > 0, faults' = faults
    PROVE  Contract!MayAct(k)
<1>1. k \in published /\ k \notin Malformed
  BY DEF Books, OriginInv
<1>2. Account(k) /\ Finite(k) /\ TypeInv
  BY DEF Books, AccountInv, Account
<1>3. /\ Cardinality(Copies(ready, k)) \in Nat /\ Cardinality(Copies(delayed, k)) \in Nat
      /\ Cardinality(Acting(k)) \in Nat
      /\ taken[k] \in Nat /\ failed[k] \in Nat /\ late[k] \in Nat
      /\ faults \in Nat /\ Asked(k) \in {0, 1}
  BY <1>2, BooksTyped
<1>4. Queueing(k) \in Nat
  BY <1>3 DEF Queueing
<1>5. taken[k] + failed[k] <= faults
  BY <1>2, <1>3, <1>4 DEF Account
<1>6. QED
  BY <1>1, <1>5 DEF Contract!MayAct

(* An UPDATE that matches is TakeStock, whoever awaits it.                 *)
LEMMA CommitRefines ==
    ASSUME Books, NEW k \in Picks, Commits(k), Contract!MayAct(k),
           faults' \in {faults, faults + 1}, Short' = Short,
           UNCHANGED <<published, dead, completed, failed>>
    PROVE  Contract!TakeStock(k)
<1>3. PICK p \in Products, n \in 1..MaxQuantity :
        p = Order[k].product /\ n = Order[k].quantity
  BY PipelineAssumption
<1>4. /\ Matches(table, p, -n) /\ table' = Adjusted(table, p, -n, NoLocation)
      /\ taken' = [taken EXCEPT ![k] = @ + 1]
  BY <1>3 DEF Commits, Covers, Counted
<1>6. table \in Table /\ Exists(table, p) /\ table[p].quantity \in 0..Int4Max /\ Int4Max \in Nat
  BY <1>4, RowInRange, TableAssumption DEF Books, TypeInv, TypeOK, Matches
<1>7. Stock[p] = table[p].quantity /\ Stock[p] >= n
  <2>1. Shifted(table, p, -n) >= 0 /\ n \in Nat
    BY <1>4, TableAssumption DEF Matches
  <2>2. QED
    BY <1>6, <2>1 DEF Stock, Shifted
<1>8. Stock' = [Stock EXCEPT ![p] = @ - n]
  <2>1. n \in Nat /\ ~OutOfRange(table, p, -n)
    BY <1>6, TableAssumption DEF OutOfRange, Shifted
  <2>2. /\ Exists(table', p) /\ table'[p].quantity = Shifted(table, p, -n)
        /\ \A o \in Products \ {p} : table'[o] = table[o]
    <3>1. -n \in Int /\ NoLocation \in Locations \cup {NoLocation}
      BY <2>1
    <3>2. Exists(table', p) /\ table'[p].quantity = Shifted(table, p, -n)
      BY <1>4, <1>6, <2>1, <3>1, AdjustedRow
    <3>3. \A o \in Products \ {p} : table'[o] = table[o]
      BY <1>4, <1>6 DEF Adjusted, Table
    <3>4. QED
      BY <3>2, <3>3
  <2>3. Stock'[p] = Stock[p] - n
    BY <1>6, <1>7, <2>1, <2>2 DEF Stock, Shifted, Exists
  <2>4. \A o \in Products \ {p} : Stock'[o] = Stock[o]
    BY <2>2 DEF Stock, Exists
  <2>5. QED
    BY <2>3, <2>4 DEF Stock
<1>9. DeadLettered' = DeadLettered
  BY DEF DeadLettered
<1>10. QED
  BY <1>3, <1>4, <1>7, <1>8, <1>9
     DEF Contract!TakeStock, Contract!Left, Contract!Needs, Contract!reports

(* So is a decrement, whether or not its result arrives ...                *)
LEMMA TakeRefines ==
    ASSUME Books, NEW w \in Workers, Decrement(w) \/ ResultLost(w)
    PROVE  Contract!TakeStock(held[w].pick)
<1>1. TypeInv /\ TakesStock(w) /\ faults' \in {faults, faults + 1} /\ OnlyMoves(w)
  BY WorkerStep DEF Books, Decrement, ResultLost, Step, Faulty
<1>2. PICK k \in Picks : k = held[w].pick /\ held[w] \in Message
  BY <1>1, DecrementTyped DEF Message
<1>3. /\ pc[w] = "handle" /\ k \notin Malformed /\ Commits(k)
      /\ UNCHANGED <<published, dead, completed, failed>>
  BY <1>1, <1>2 DEF TakesStock, Updating, queues, outcomes
<1>4. Contract!MayAct(k)
  BY <1>1, <1>2, <1>3, MayActNow
<1>5. Short' = Short
  <2>1. pc'[w] \notin {"recheck", "failed"} /\ pc[w] \notin {"recheck", "failed"}
    BY <1>1, <1>3 DEF Decrement, ResultLost, Moves, TypeInv, TypeOK
  <2>2. QED
    BY <1>1, <2>1, ShortMoves
<1>6. QED
  BY <1>1, <1>2, <1>3, <1>4, <1>5, CommitRefines

(* ... and an UPDATE that runs when nobody awaits it any more.             *)
LEMMA LateRefines ==
    ASSUME Books, NEW k \in Picks, RunsLate(k)
    PROVE  Contract!TakeStock(k) \/ UNCHANGED Contract!vars
<1>1. /\ late[k] > 0 /\ faults' = faults
      /\ UNCHANGED <<published, dead, completed, failed, pc, held>>
  BY DEF RunsLate, queues, outcomes
<1>2. Short' = Short
  BY <1>1 DEF Short
<1>3. CASE Commits(k)
  BY <1>1, <1>2, <1>3, MayActLate, CommitRefines
<1>4. CASE UNCHANGED <<table, taken>>
  BY <1>1, <1>2, <1>4, Invisible
<1>5. QED
  BY <1>3, <1>4 DEF RunsLate

(* An UPDATE that matches no row is FindShort.                             *)
LEMMA UnmatchedRefines ==
    ASSUME Books, NEW w \in Workers, Unmatched(w)
    PROVE  Contract!FindShort(held[w].pick)
<1>1. TypeInv /\ OnlyMoves(w)
  BY WorkerStep DEF Books, Step
<1>2. held[w] \in Message /\ held[w].pick \in Picks
  BY <1>1 DEF Unmatched, Updating, TypeInv, WorkerInv, Busy, Message
<1>3. PICK k \in Picks, p \in Products, n \in 1..MaxQuantity :
        k = held[w].pick /\ p = Order[k].product /\ n = Order[k].quantity
  BY <1>2, PipelineAssumption
<1>4. /\ pc[w] = "handle" /\ pc'[w] = "recheck" /\ held' = held
      /\ ~Matches(table, p, -n)
      /\ UNCHANGED <<table, published, dead, taken, completed, failed, faults>>
  BY <1>1, <1>3 DEF Unmatched, Updating, Covers, Moves, queues, outcomes, TypeInv, TypeOK
<1>5. Stock[p] < n
  <2>1. CASE Exists(table, p)
    <3>1. table[p].quantity \in 0..Int4Max /\ n \in Nat /\ Int4Max \in Nat
      BY <1>1, <2>1, RowInRange, TableAssumption DEF TypeInv, TypeOK
    <3>2. QED
      BY <1>4, <2>1, <3>1 DEF Matches, Shifted, Stock
  <2>2. CASE ~Exists(table, p)
    BY <2>2, TableAssumption DEF Stock
  <2>3. QED
    BY <2>1, <2>2
<1>6. Short' = Short \cup {k}
  BY <1>1, <1>3, <1>4, ShortMoves
<1>7. Stock' = Stock /\ DeadLettered' = DeadLettered
  BY <1>4 DEF Stock, Exists, DeadLettered
<1>8. k \in published
  BY <1>2, <1>3 DEF Books, OriginInv
<1>9. Contract!FindShort(k)
  BY <1>3, <1>4, <1>5, <1>6, <1>7, <1>8
     DEF Contract!FindShort, Contract!Left, Contract!Needs, Contract!reports
<1>10. QED
  BY <1>3, <1>9

(* Publishing an outcome is Complete or Fail; on a closed channel what was *)
(* found is forgotten.                                                     *)
LEMMA EmitRefines ==
    ASSUME Books, NEW w \in Workers, Emit(w)
    PROVE  \/ Contract!Complete(held[w].pick) \/ Contract!Fail(held[w].pick)
           \/ Contract!Forget(held[w].pick) \/ UNCHANGED Contract!vars
<1>1. /\ TypeInv /\ OnlyMoves(w) /\ pc[w] \in {"completed", "failed"}
      /\ pc'[w] \notin {"recheck", "failed"}
      /\ UNCHANGED <<table, published, dead, taken, faults>>
  BY WorkerStep DEF Books, Step, Emit, Moves, TypeInv, TypeOK, queues
<1>2. PICK k \in Picks : k = held[w].pick /\ held[w] \in Message
  BY <1>1 DEF TypeInv, WorkerInv, Busy, Message
<1>3. k \in published /\ k \notin Malformed
  BY <1>1, <1>2 DEF Books, OriginInv
<1>4. Stock' = Stock /\ DeadLettered' = DeadLettered
  BY <1>1 DEF Stock, Exists, DeadLettered
<1>5. CASE open[w] /\ pc[w] = "completed"
  <2>1. completed' = [completed EXCEPT ![k] = @ + 1] /\ failed' = failed
    BY <1>2, <1>5 DEF Emit, Counted
  <2>2. completed[k] < taken[k]
    <3>1. Account(k) /\ Finite(k)
      BY DEF Books, AccountInv, Account
    <3>2. w \in Completing(k)
      BY <1>2, <1>5 DEF Completing, Holds
    <3>3. Cardinality(Completing(k)) \in Nat /\ Cardinality(Completing(k)) # 0
      BY <3>1, <3>2, FS_EmptySet, FS_CardinalityType DEF Finite
    <3>4. completed[k] \in Nat /\ taken[k] \in Nat
      BY <1>1, <3>1, BooksTyped
    <3>5. QED
      BY <3>1, <3>3, <3>4 DEF Account
  <2>3. Short' = Short
    BY <1>1, <1>5, ShortMoves
  <2>4. Contract!Complete(k)
    BY <1>1, <1>4, <2>1, <2>2, <2>3 DEF Contract!Complete
  <2>5. QED
    BY <1>2, <2>4
<1>6. CASE open[w] /\ pc[w] = "failed"
  <2>1. failed' = [failed EXCEPT ![k] = @ + 1] /\ completed' = completed
    BY <1>2, <1>6 DEF Emit, Counted
  <2>2. Contract!MayAct(k)
    BY <1>1, <1>2, <1>3, <1>6, MayActNow
  <2>3. k \in Short /\ Short' \in {Short, Short \ {k}}
    BY <1>1, <1>2, <1>6, ShortMoves
  <2>4. Contract!Fail(k)
    BY <1>1, <1>4, <2>1, <2>2, <2>3 DEF Contract!Fail
  <2>5. QED
    BY <1>2, <2>4
<1>7. CASE ~open[w]
  <2>1. UNCHANGED <<completed, failed>>
    BY <1>7 DEF Emit, outcomes
  <2>2. CASE Short' = Short
    BY <1>1, <2>1, <2>2, Invisible
  <2>3. CASE Short' # Short
    <3>1. k \in Short /\ Short' = Short \ {k}
      BY <1>1, <1>2, <2>3, ShortMoves
    <3>2. Contract!Forget(k)
      BY <1>1, <1>4, <2>1, <3>1 DEF Contract!Forget, Contract!reports
    <3>3. QED
      BY <1>2, <3>2
  <2>4. QED
    BY <2>2, <2>3
<1>8. QED
  BY <1>1, <1>5, <1>6, <1>7

(* A dead letter is GiveUp: every failed attempt but those of what is no   *)
(* pick was a fault, and there were more of them than retries.             *)
LEMMA ErrorRefines ==
    ASSUME Books, NEW w \in Workers, OnError(w)
    PROVE  Contract!GiveUp(held[w].pick) \/ UNCHANGED Contract!vars
<1>1. /\ TypeInv /\ OnlyMoves(w) /\ pc[w] = "error" /\ pc'[w] \in {"down", "ack"}
      /\ UNCHANGED <<table, published, taken, completed, failed, faults>>
  BY WorkerStep DEF Books, Step, OnError, Moves, TypeInv, TypeOK, outcomes
<1>2. PICK k \in Picks : k = held[w].pick /\ held[w] \in Message
  BY <1>1 DEF TypeInv, WorkerInv, Busy, Message
<1>3. Short' = Short
  BY <1>1, ShortMoves
<1>4. CASE dead' = dead
  BY <1>1, <1>3, <1>4, Invisible
<1>5. CASE dead' # dead
  <2>1. open[w] /\ ~(held[w].retries < MaxRetries) /\ dead' = Put(dead, held[w])
    BY <1>5 DEF OnError
  <2>2. DeadLettered' = DeadLettered \cup {k}
    <3>1. dead \in [Message -> Nat]
      BY <1>1 DEF TypeInv, TypeOK
    <3>2. \A m \in Message : dead'[m] > 0 <=> dead[m] > 0 \/ m = held[w]
      BY <1>2, <2>1, <3>1 DEF Put
    <3>3. QED
      BY <1>2, <3>2 DEF DeadLettered
  <2>3. k \in Malformed \/ faults > MaxRetries
    <3>1. SUFFICES ASSUME k \notin Malformed PROVE faults > MaxRetries
      OBVIOUS
    <3>2. Account(k) /\ Finite(k)
      BY DEF Books, AccountInv, Account
    <3>3. w \in Erring(k)
      BY <1>1, <1>2, <2>1 DEF Erring, Holds
    <3>4. Cardinality(Erring(k)) \in Nat /\ Cardinality(Erring(k)) # 0
      BY <3>2, <3>3, FS_EmptySet, FS_CardinalityType DEF Finite
    <3>5. errors[k] \in Nat /\ faults \in Nat
      BY <1>1, <3>2, BooksTyped
    <3>6. errors[k] >= held[w].retries /\ held[w].retries \in 0..MaxRetries /\ MaxRetries \in Nat
      BY <1>2, PipelineAssumption DEF Books, BudgetInv, Budgeted, Message
    <3>7. QED
      BY <2>1, <3>1, <3>2, <3>4, <3>5, <3>6 DEF Account
  <2>4. k \in published
    BY <1>2 DEF Books, OriginInv
  <2>5. Stock' = Stock
    BY <1>1 DEF Stock, Exists
  <2>6. Contract!GiveUp(k)
    BY <1>1, <1>3, <2>2, <2>3, <2>4, <2>5 DEF Contract!GiveUp, Contract!reports
  <2>7. QED
    BY <1>2, <2>6
<1>6. QED
  BY <1>4, <1>5

(* A fault that is no effect is a Mishap.                                  *)
LEMMA FaultRefines ==
    ASSUME Books, NEW w \in Workers, DatabaseFails(w) \/ Crash(w) \/ Disconnect(w)
    PROVE  Contract!Mishap
<1>1. /\ TypeInv /\ OnlyMoves(w) /\ faults' = faults + 1
      /\ UNCHANGED <<table, published, dead, taken, completed, failed>>
  BY WorkerStep
     DEF Books, Faulty, DatabaseFails, Crash, Disconnect, Fault, queues, outcomes
<1>2. Short' = Short \/ \E k \in Short : Short' = Short \ {k}
  <2>1. \/ pc'[w] \notin {"recheck", "failed"}
        \/ pc'[w] = pc[w] /\ held'[w] = held[w]
    BY <1>1 DEF DatabaseFails, Crash, Disconnect, Moves, TypeInv, TypeOK
  <2>2. QED
    BY <1>1, <2>1, ShortMoves
<1>3. Stock' = Stock /\ DeadLettered' = DeadLettered
  BY <1>1 DEF Stock, Exists, DeadLettered
<1>4. QED
  BY <1>1, <1>2, <1>3 DEF Contract!Mishap, Contract!reports

LEMMA ContractStep == Books /\ [Next]_vars => [Contract!Next]_Contract!vars
<1> SUFFICES ASSUME Books, [Next]_vars PROVE [Contract!Next]_Contract!vars
  OBVIOUS
<1>t. TypeInv
  BY DEF Books
<1>p. ASSUME NEW w \in Workers, pc[w] \in Busy
      PROVE  held[w].pick \in Picks
  BY <1>t, <1>p DEF TypeInv, WorkerInv, Message
<1>1. ASSUME NEW j \in Picks, Publish(j) PROVE Contract!Ask(j)
  <2>1. /\ Short' = Short /\ DeadLettered' = DeadLettered /\ Stock' = Stock
        /\ UNCHANGED <<taken, completed, failed, faults>>
    BY <1>1 DEF Publish, Short, DeadLettered, Stock, Exists, outcomes
  <2>2. QED
    BY <1>1, <2>1 DEF Publish, Contract!Ask, Contract!reports
<1>2. ASSUME NEW m \in Message, Expire(m) PROVE UNCHANGED Contract!vars
  <2>1. Short' = Short
    BY <1>2 DEF Expire, Short
  <2>2. QED
    BY <1>2, <2>1, Invisible DEF Expire, outcomes
<1>3. ASSUME NEW w \in Workers, NEW m \in Message, Deliver(w, m) PROVE UNCHANGED Contract!vars
  <2>1. OnlyMoves(w) /\ pc[w] = "idle" /\ pc'[w] = "handle"
    BY <1>t, <1>3 DEF Deliver, OnlyMoves, TypeInv, TypeOK
  <2>2. Short' = Short
    BY <2>1, ShortMoves
  <2>3. QED
    BY <1>3, <2>2, Invisible DEF Deliver, outcomes
<1>4. CASE Edit
  <2>1. PICK p \in Products :
          table' \in {Deleted(table, p)} \cup {Written(table, p, q, l) : q \in 0..Int4Max,
                                                                        l \in Locations}
    BY <1>4 DEF Edit
  <2>2. table \in Table /\ NoRow \notin Row
    BY <1>t, TableAssumption DEF TypeInv, TypeOK
  <2>3. \A o \in Products \ {p} : table'[o] = table[o]
    BY <2>1, <2>2 DEF Deleted, Written, Table
  <2>4. table'[p] = NoRow \/ (table'[p] # NoRow /\ table'[p].quantity \in 0..Int4Max)
    BY <2>1, <2>2, WrittenInTable DEF Deleted, Written, Table, Row
  <2>5. PICK s \in {-1} \cup 0..Int4Max : s = Stock'[p]
    BY <2>4 DEF Stock, Exists
  <2>6. Stock' = [Stock EXCEPT ![p] = s]
    <3>1. \A o \in Products \ {p} : Stock'[o] = Stock[o]
      BY <2>3 DEF Stock, Exists
    <3>2. QED
      BY <2>5, <3>1 DEF Stock
  <2>7. /\ Short' = Short /\ DeadLettered' = DeadLettered
        /\ UNCHANGED <<published, taken, completed, failed, faults>>
    BY <1>4 DEF Edit, Short, DeadLettered, queues, outcomes
  <2>8. Contract!Edit(p)
    BY <2>6, <2>7 DEF Contract!Edit, Contract!Missing, Contract!reports
  <2>9. QED
    BY <2>8 DEF Contract!Next
<1>5. ASSUME NEW w \in Workers, Reject(w) \/ Explain(w) \/ Ack(w) \/ Restart(w)
      PROVE  UNCHANGED Contract!vars
  <2>1. OnlyMoves(w)
    BY <1>t, <1>5, WorkerStep DEF Step
  <2>2. \/ pc[w] \notin {"recheck", "failed"} /\ pc'[w] \notin {"recheck", "failed"}
        \/ pc[w] \in {"recheck", "failed"} /\ pc'[w] \in {"recheck", "failed"} /\ held' = held
    BY <1>t, <1>5 DEF Reject, Explain, Ack, Restart, Moves, TypeInv, TypeOK
  <2>3. Short' = Short
    BY <2>1, <2>2, ShortMoves
  <2>4. QED
    BY <1>5, <2>3, Invisible DEF Reject, Explain, Ack, Restart, queues, outcomes
<1>6. CASE UNCHANGED vars
  BY <1>6, Invisible DEF vars, queues, outcomes, Short
<1>7. ASSUME NEW w \in Workers, Decrement(w) \/ ResultLost(w) PROVE Contract!Next
  BY <1>7, <1>p, TakeRefines DEF Contract!Next, Decrement, ResultLost, TakesStock,
                                    Updating, Busy
<1>8. ASSUME NEW w \in Workers, Unmatched(w) PROVE Contract!Next
  BY <1>8, <1>p, UnmatchedRefines DEF Contract!Next, Unmatched, Updating, Busy
<1>9. ASSUME NEW w \in Workers, Emit(w) PROVE [Contract!Next]_Contract!vars
  BY <1>9, <1>p, EmitRefines DEF Contract!Next, Emit, Busy
<1>10. ASSUME NEW w \in Workers, OnError(w) PROVE [Contract!Next]_Contract!vars
  BY <1>10, <1>p, ErrorRefines DEF Contract!Next, OnError, Busy
<1>11. ASSUME NEW w \in Workers, DatabaseFails(w) \/ Crash(w) \/ Disconnect(w)
       PROVE  Contract!Next
  BY <1>11, FaultRefines DEF Contract!Next
<1>12. ASSUME NEW w \in Workers, Step(w) \/ Faulty(w) \/ Restart(w)
       PROVE  [Contract!Next]_Contract!vars
  BY <1>5, <1>7, <1>8, <1>9, <1>10, <1>11, <1>12 DEF Step, Faulty
<1>13. ASSUME NEW k \in Picks, RunsLate(k) PROVE [Contract!Next]_Contract!vars
  BY <1>13, LateRefines DEF Contract!Next
<1>14. QED
  BY <1>1, <1>2, <1>3, <1>4, <1>6, <1>12, <1>13 DEF Next, Receive, Quiet, Contract!Next

(* The workers, their queues, retries and faults implement the contract of *)
(* a pick: it takes exactly its quantity from a stock that covers it, is   *)
(* reported completed no more often than it took, failed only if its stock *)
(* was found short, and is given up only if it is no pick or more went     *)
(* wrong than its retries make up for.                                     *)
THEOREM Refinement == Spec => ImplementsContract
<1>1. Init => Contract!Init
  <2> SUFFICES ASSUME Init PROVE Contract!Init
    OBVIOUS
  <2>1. Stock \in [Products -> {-1} \cup 0..Int4Max]
    BY RowInRange DEF Init, Stock
  <2>2. Short = {} /\ DeadLettered = {}
    BY DEF Init, Short, DeadLettered, EmptyQueue
  <2>3. QED
    BY <2>1, <2>2 DEF Init, None, Contract!Init, Contract!Missing
<1>2. Init => OriginInv
  BY PipelineAssumption DEF Init, OriginInv, EmptyQueue, None
<1>3. Init => BudgetInv
  BY PipelineAssumption DEF Init, BudgetInv, DeadAfterAllRetries, EmptyQueue
<1>4. TypeInv /\ BudgetInv /\ OriginInv /\ AccountInv /\ [Next]_vars
        => [Contract!Next]_Contract!vars
  BY ContractStep DEF Books
<1>5. QED
  BY <1>1, <1>2, <1>3, <1>4, OriginStep, BudgetStep, TypeInvHolds, AccountHolds, PTL
     DEF Spec, ImplementsContract, Contract!Spec
=============================================================================
