-------------------------- MODULE ProductApiProofs --------------------------
(***************************************************************************)
(* Theorems about ProductApi, for any number of requests, products and     *)
(* database failures: type correctness, the honesty of the answers, the    *)
(* only cause of a false refusal, and the refinement of StockContract.     *)
(***************************************************************************)
EXTENDS ProductApi, ProductTableTheorems

USE DEF Statements, Changing

Kinds == {"none", "row", "empty", "duplicate", "error"}

(* An input that passed validation has an amount in range and a product.   *)
LEMMA InputFields ==
    ASSUME NEW q \in Input
    PROVE  /\ q.op \in {"create", "set", "delta", "find", "delete"}
           /\ q.product \in Products
           /\ q.amount \in Int
           /\ q.op \in {"create", "set"} => q.amount \in 0..MaxQuantity
           /\ q.op \in {"create", "set", "delta"} => q.pick_location \in Locations
  BY TableAssumption DEF Input

(* The statement a request starts with has its result pending.             *)
LEMMA RepliesTyped ==
    /\ Pending \in Reply
    /\ \A q \in 0..Int4Max : Returned(q) \in Reply
    /\ \A k \in Kinds : Signal(k) \in Reply
  BY TableAssumption DEF Pending, Returned, Signal, Reply, Kinds

(* What pc and late have to say about the request they belong to.          *)
OpOfStatement ==
    \A r \in Requests :
        /\ pc[r] = "insert" => req[r].op = "create"
        /\ pc[r] = "update" => req[r].op = "set"
        /\ pc[r] \in {"adjust", "recheck"} => req[r].op = "delta"
        /\ pc[r] = "delete" => req[r].op = "delete"
        /\ pc[r] = "select" => req[r].op \in {"find", "set"}
        /\ late[r] = "insert" => req[r].op = "create"
        /\ late[r] = "update" => req[r].op = "set"
        /\ late[r] = "adjust" => req[r].op = "delta"
        /\ late[r] = "delete" => req[r].op = "delete"

TypeInv == TypeOK /\ OpOfStatement

(* A statement that reads keeps the types.                                 *)
LEMMA ReadsTyped ==
    ASSUME TypeInv, NEW r \in Requests, NEW rep \in Reply, Reads(r, rep)
    PROVE  TypeInv'
  BY DEF TypeInv, TypeOK, OpOfStatement, Reads, Returns

(* A statement that writes a well-formed table keeps the types.            *)
LEMMA WritesTyped ==
    ASSUME TypeInv, NEW r \in Requests, NEW t \in Table, NEW rep \in Reply,
           Writes(r, t, rep)
    PROVE  TypeInv'
<1>1. /\ table' \in Table /\ reply' \in [Requests -> Reply]
      /\ late' \in [Requests -> Changing \cup {"none"}]
  BY DEF Writes, Returns, TypeInv, TypeOK
<1>2. effects' \in [Requests -> Nat]
  BY DEF Writes, TypeInv, TypeOK
<1>3. restocked' \in [Requests -> BOOLEAN]
  <2>1. \A o \in Requests : restocked[o] \in BOOLEAN
    BY DEF TypeInv, TypeOK
  <2>2. \A o \in Requests :
          (restocked[o] \/ (Unexplained(o) /\ Restocked(table, t, req[o].product)))
          \in BOOLEAN
    OBVIOUS
  <2> QED
    BY <2>2 DEF Writes
<1> QED
  BY <1>1, <1>2, <1>3 DEF Writes, Returns, TypeInv, TypeOK, OpOfStatement

(* Answering keeps the types.                                              *)
LEMMA RespondTyped ==
    ASSUME TypeInv, NEW r \in Requests, NEW c \in {200, 201, 404, 409, 500},
           Respond(r, c)
    PROVE  TypeInv'
  BY DEF TypeInv, TypeOK, OpOfStatement, Respond

(* So does sending the second statement of a use case.                     *)
LEMMA SendTyped ==
    ASSUME TypeInv, NEW r \in Requests, NEW s \in {"update", "recheck"},
           Send(r, s),
           s = "update" => req[r].op = "set",
           s = "recheck" => req[r].op = "delta"
    PROVE  TypeInv'
  BY RepliesTyped DEF TypeInv, TypeOK, OpOfStatement, Send

(* The types and the statement a request is at agree with what it asks.    *)
THEOREM TypeInvHolds == Spec => []TypeInv
<1>1. Init => TypeInv
  <2> SUFFICES ASSUME Init PROVE TypeInv
    OBVIOUS
  <2>1. \A r \in Requests : req[r].op \in {"create", "set", "delta", "find", "delete"}
    BY InputFields DEF Init
  <2>2. \A r \in Requests : pc[r] = FirstStatement(req[r].op)
    BY DEF Init
  <2>3. pc \in [Requests -> Statements] /\ OpOfStatement
    BY <2>1, <2>2 DEF Init, FirstStatement, OpOfStatement
  <2> QED
    BY <2>3, RepliesTyped, FailuresAssumption DEF Init, TypeInv, TypeOK
<1>2. TypeInv /\ [Next]_vars => TypeInv'
  <2> SUFFICES ASSUME TypeInv, [Next]_vars PROVE TypeInv'
    OBVIOUS
  <2> USE DEF Kinds
  <2>0. \A r \in Requests : req[r] \in Input /\ req[r].product \in Products
    BY InputFields DEF TypeInv, TypeOK
  <2>1. ASSUME NEW r \in Requests, Insert(r) PROVE TypeInv'
    <3> DEFINE q == req[r]
    <3>1. q.amount \in 0..Int4Max /\ q.pick_location \in Locations /\ q.product \in Products
      BY <2>0, <2>1, InputFields, TableAssumption
         DEF TypeInv, OpOfStatement, Insert, Runs, Awaits
    <3>2. Written(table, q.product, q.amount, q.pick_location) \in Table
      BY <3>1, WrittenInTable DEF TypeInv, TypeOK
    <3>3. CASE Exists(table, q.product)
      BY <2>1, <3>3, ReadsTyped, RepliesTyped DEF Insert
    <3>4. CASE ~Exists(table, q.product)
      BY <2>1, <3>1, <3>2, <3>4, WritesTyped, RepliesTyped DEF Insert
    <3> QED
      BY <3>3, <3>4
  <2>2. ASSUME NEW r \in Requests, Select(r) PROVE TypeInv'
    <3>1. Exists(table, req[r].product) =>
            table[req[r].product].quantity \in 0..Int4Max
      BY <2>0, RowInRange DEF TypeInv, TypeOK
    <3> QED
      BY <2>2, <3>1, ReadsTyped, RepliesTyped DEF Select
  <2>3. ASSUME NEW r \in Requests, Update(r) PROVE TypeInv'
    <3> DEFINE q == req[r]
    <3>1. q.amount \in 0..Int4Max /\ q.pick_location \in Locations /\ q.product \in Products
      BY <2>0, <2>3, InputFields, TableAssumption
         DEF TypeInv, OpOfStatement, Update, Runs, Awaits
    <3>2. Written(table, q.product, q.amount, q.pick_location) \in Table
      BY <3>1, WrittenInTable DEF TypeInv, TypeOK
    <3>3. CASE ~Exists(table, q.product)
      BY <2>3, <3>3, ReadsTyped, RepliesTyped DEF Update
    <3>4. CASE Exists(table, q.product)
      BY <2>3, <3>1, <3>2, <3>4, WritesTyped, RepliesTyped DEF Update
    <3> QED
      BY <3>3, <3>4
  <2>4. ASSUME NEW r \in Requests, Adjust(r) PROVE TypeInv'
    <3> DEFINE q == req[r]
    <3>1. q.amount \in Int /\ q.pick_location \in Locations /\ q.product \in Products
      BY <2>0, <2>4, InputFields DEF TypeInv, OpOfStatement, Adjust, Runs, Awaits
    <3>2. CASE OutOfRange(table, q.product, q.amount)
      BY <2>4, <3>2, ReadsTyped, RepliesTyped DEF Adjust
    <3>3. CASE ~OutOfRange(table, q.product, q.amount) /\ Matches(table, q.product, q.amount)
      <4>1. Adjusted(table, q.product, q.amount, q.pick_location) \in Table
        BY <3>1, <3>3, AdjustedInTable DEF TypeInv, TypeOK
      <4>2. Shifted(table, q.product, q.amount) \in 0..Int4Max
        <5>1. table[q.product].quantity \in 0..Int4Max /\ Exists(table, q.product)
          BY <3>1, <3>3, RowInRange DEF TypeInv, TypeOK, Matches
        <5> QED
          BY <5>1, <3>1, <3>3, TableAssumption DEF Matches, OutOfRange, Shifted
      <4> QED
        BY <2>4, <3>3, <4>1, <4>2, WritesTyped, RepliesTyped DEF Adjust
    <3>4. CASE ~OutOfRange(table, q.product, q.amount) /\ ~Matches(table, q.product, q.amount)
      BY <2>4, <3>4, ReadsTyped, RepliesTyped DEF Adjust
    <3> QED
      BY <3>2, <3>3, <3>4
  <2>5. ASSUME NEW r \in Requests, Delete(r) PROVE TypeInv'
    <3>1. Deleted(table, req[r].product) \in Table
      BY <2>0, DeletedInTable DEF TypeInv, TypeOK
    <3>2. 0 \in 0..Int4Max
      BY TableAssumption
    <3>3. CASE Exists(table, req[r].product)
      BY <2>5, <3>1, <3>2, <3>3, WritesTyped, RepliesTyped DEF Delete
    <3>4. CASE ~Exists(table, req[r].product)
      BY <2>5, <3>4, ReadsTyped, RepliesTyped DEF Delete
    <3> QED
      BY <3>3, <3>4
  <2>6. ASSUME NEW r \in Requests, LoseConnection(r) PROVE TypeInv'
    <3>1. failures' \in 0..MaxFailures
      BY <2>6, FailuresAssumption DEF LoseConnection, TypeInv, TypeOK
    <3> QED
      BY <2>6, <3>1, RepliesTyped DEF LoseConnection, TypeInv, TypeOK, OpOfStatement
  <2>7. ASSUME NEW r \in Requests, UseCase(r) PROVE TypeInv'
    <3>1. CASE Created(r) \/ Changed(r) \/ Removed(r) \/ NotFound(r) \/ Conflict(r)
               \/ ServerError(r)
      BY <3>1, RespondTyped DEF Created, Changed, Removed, NotFound, Conflict, ServerError
    <3>2. CASE Found(r)
      BY <3>2, RespondTyped, SendTyped DEF Found
    <3>3. CASE Unmatched(r)
      <4>1. req[r].op = "delta"
        BY <3>3 DEF Unmatched, Resumes, TypeInv, OpOfStatement
      <4> QED
        BY <3>3, <4>1, SendTyped DEF Unmatched
    <3> QED
      BY <2>7, <3>1, <3>2, <3>3 DEF UseCase
  <2>8. CASE UNCHANGED vars
    BY <2>8 DEF vars, TypeInv, TypeOK, OpOfStatement
  <2> QED
    BY <2>1, <2>2, <2>3, <2>4, <2>5, <2>6, <2>7, <2>8
       DEF Next, Database, AllAnswered
<1> QED
  BY <1>1, <1>2, PTL DEF Spec

(* Every behaviour of the product endpoints is type correct: in particular *)
(* quantities stay within 0..Int4Max in every interleaving.                *)
THEOREM TypeCorrect == Spec => []TypeOK
<1>1. TypeInv => TypeOK
  BY DEF TypeInv
<1> QED
  BY <1>1, TypeInvHolds, PTL

-----------------------------------------------------------------------------
(* The effect a request has had so far can be read off the statement it is *)
(* at and that statement's result; once answered, off the answer.  While a *)
(* statement may still run without its connection there has been none.     *)
EffectOfProgress ==
    \A r \in Requests :
        /\ effects[r] \in {0, 1}
        /\ pc[r] # "done" => answer[r] = 0
        /\ pc[r] # "done" /\ reply[r].kind \in {"none", "empty", "duplicate"}
             => effects[r] = 0
        /\ pc[r] \in {"select", "recheck"} => effects[r] = 0
        /\ pc[r] \in {"insert", "update", "adjust", "delete"}
           /\ reply[r].kind = "row" => effects[r] = 1
        /\ answer[r] = 0 => pc[r] # "done"
        /\ answer[r] \in {200, 201} /\ req[r].op # "find" => effects[r] = 1
        /\ answer[r] \in {404, 409} => effects[r] = 0
        /\ answer[r] = 500 => reply[r].kind = "error"
        /\ reply[r].kind = "error" /\ effects[r] = 1 => failures > 0
        /\ late[r] # "none" => /\ reply[r].kind = "error" /\ failures > 0
                              /\ answer[r] \in {0, 500} /\ effects[r] = 0
                              /\ pc[r] \in {late[r], "done"}

(* A guarded UPDATE that matched no row keeps not matching until its       *)
(* product is restocked, and so does what the SELECT then saw.             *)
RefusalHolds(r) ==
    /\ Unexplained(r) => \/ restocked[r]
                         \/ ~Matches(table, req[r].product, req[r].amount)
    /\ (pc[r] = "recheck" /\ reply[r].kind = "row")
         => restocked[r] \/ reply[r].quantity + req[r].amount < 0
    /\ (req[r].op = "delta" /\ answer[r] = 409)
         => restocked[r] \/ reply[r].quantity + req[r].amount < 0

RefusalInv == \A r \in Requests : RefusalHolds(r)

Progress == TypeInv /\ EffectOfProgress /\ RefusalInv

(* A statement that reads: no effect, and only a SELECT returns a row.     *)
LEMMA ReadsProgress ==
    ASSUME Progress, NEW r \in Requests, NEW rep \in Reply, Reads(r, rep),
           late[r] = "none" =>
             /\ pc[r] # "done" /\ reply[r] = Pending /\ rep.kind # "none"
             /\ rep.kind = "row" => pc[r] \in {"select", "recheck"}
             /\ rep.kind = "empty" /\ pc[r] = "adjust"
                  => ~Matches(table, req[r].product, req[r].amount)
             /\ rep.kind = "row" /\ pc[r] = "recheck"
                  => restocked[r] \/ rep.quantity + req[r].amount < 0
    PROVE  EffectOfProgress' /\ RefusalInv'
<1> USE DEF Progress
<1>2. \A o \in Requests : o # r => reply'[o] = reply[o] /\ late'[o] = late[o]
  BY DEF Reads, Returns, TypeInv, TypeOK
<1>l. late'[r] = "none"
  BY DEF Reads, Returns, TypeInv, TypeOK
<1>5. CASE late[r] # "none"
  <2>1. reply' = reply
    BY <1>5 DEF Reads, Returns
  <2>2. EffectOfProgress'
    BY <1>2, <1>l, <2>1 DEF EffectOfProgress, Reads
  <2>3. RefusalInv'
    BY <2>1 DEF RefusalHolds, RefusalInv, Reads, Unexplained, Awaits
  <2> QED
    BY <2>2, <2>3
<1>6. CASE late[r] = "none"
  <2>1. reply'[r] = rep /\ rep # Pending
    BY <1>6 DEF Reads, Returns, TypeInv, TypeOK, Pending
  <2>2. effects[r] = 0
    BY <1>6 DEF EffectOfProgress, Pending
  <2>3. EffectOfProgress'
    BY <1>2, <1>6, <1>l, <2>1, <2>2 DEF EffectOfProgress, Reads, Pending
  <2>4. ASSUME NEW o \in Requests PROVE RefusalHolds(o)'
    <3>1. CASE o = r
      BY <1>6, <2>1, <3>1 DEF RefusalHolds, RefusalInv, Reads, Unexplained,
                              Awaits, EffectOfProgress
    <3>2. CASE o # r
      BY <1>2, <3>2 DEF RefusalHolds, RefusalInv, Reads, Unexplained, Awaits
    <3> QED
      BY <3>1, <3>2
  <2> QED
    BY <2>3, <2>4 DEF RefusalInv
<1> QED
  BY <1>5, <1>6

(* A statement that writes: the request's one effect, and the only event   *)
(* that can make another request's refusal stale, which restocked records. *)
(* Nobody may be awaiting it any more.                                     *)
LEMMA WritesProgress ==
    ASSUME Progress, NEW r \in Requests, NEW t \in Table, NEW rep \in Reply,
           Writes(r, t, rep), rep.kind = "row",
           late[r] = "none" =>
             reply[r] = Pending /\ pc[r] \in {"insert", "update", "adjust", "delete"}
    PROVE  EffectOfProgress' /\ RefusalInv'
<1> USE DEF Progress
<1>1. IF late[r] = "none" THEN reply'[r] = rep ELSE reply'[r] = reply[r]
  BY DEF Writes, Returns, TypeInv, TypeOK
<1>l. late'[r] = "none"
  BY DEF Writes, Returns, TypeInv, TypeOK
<1>2. \A o \in Requests :
        o # r => /\ reply'[o] = reply[o] /\ late'[o] = late[o]
                 /\ effects'[o] = effects[o]
  BY DEF Writes, Returns, TypeInv, TypeOK
<1>3. effects[r] = 0 /\ effects'[r] = 1 /\ answer[r] \in {0, 500}
  BY DEF Writes, TypeInv, TypeOK, EffectOfProgress, Pending
<1>q. reply'[r].kind # "row" => reply'[r].kind = "error" /\ failures > 0
  BY <1>1 DEF EffectOfProgress
<1>p. reply'[r].kind = "row" =>
        /\ pc[r] \in {"insert", "update", "adjust", "delete"}
        /\ answer[r] = 0
  BY <1>1 DEF EffectOfProgress
<1>k. reply'[r].kind \in {"row", "error"}
  BY <1>q
<1>4. EffectOfProgress'
  <2>1. \A o \in Requests : o = r => /\ effects'[o] = 1
                                    /\ pc'[o] = pc[o] /\ answer'[o] = answer[o]
                                    /\ failures' = failures
    BY <1>3 DEF Writes
  <2>2. pc[r] \notin {"select", "recheck"}
    BY <1>q, <1>p, <1>3 DEF EffectOfProgress, TypeInv, TypeOK
  <2> QED
    BY <1>l, <1>2, <1>3, <1>q, <1>p, <1>k, <2>1, <2>2 DEF EffectOfProgress, Writes
<1>5. \A o \in Requests : restocked'[o] \in BOOLEAN /\ restocked[o] \in BOOLEAN
  BY WritesTyped DEF TypeInv, TypeOK
<1>6. \A o \in Requests :
        restocked'[o] = (\/ restocked[o]
                         \/ Unexplained(o) /\ Restocked(table, t, req[o].product))
  BY DEF Writes
<1>7. ASSUME NEW o \in Requests PROVE RefusalHolds(o)'
  <2>1. CASE o = r
    BY <1>p, <1>k, <1>3, <2>1 DEF RefusalHolds, Writes, Unexplained, Awaits, Pending
  <2>2. CASE o # r
    <3>1. Unexplained(o)' = Unexplained(o)
      BY <1>2, <2>2 DEF Unexplained, Awaits, Writes
    <3>2. restocked[o] => restocked'[o]
      BY <1>6
    <3>3. Unexplained(o)' => restocked'[o] \/ ~Matches(table', req'[o].product, req'[o].amount)
      <4> SUFFICES ASSUME Unexplained(o), ~restocked[o],
                          Matches(t, req[o].product, req[o].amount)
                   PROVE  restocked'[o]
        BY <3>1, <3>2 DEF Writes
      <4>1. ~Matches(table, req[o].product, req[o].amount)
        BY DEF RefusalInv, RefusalHolds
      <4>2. req[o].product \in Products /\ req[o].amount \in Int /\ table \in Table
        BY InputFields DEF TypeInv, TypeOK
      <4>3. Restocked(table, t, req[o].product)
        BY <4>1, <4>2, MatchNeedsRestock
      <4> QED
        BY <1>6, <4>3
    <3> QED
      BY <1>2, <2>2, <3>2, <3>3 DEF RefusalHolds, RefusalInv, Writes
  <2> QED
    BY <2>1, <2>2
<1> QED
  BY <1>4, <1>7 DEF RefusalInv

(* An answer: it must fit the effect the request had, and a 409 to a delta *)
(* must follow a SELECT that returned a row.                               *)
LEMMA RespondProgress ==
    ASSUME Progress, NEW r \in Requests, NEW c \in {200, 201, 404, 409, 500},
           Respond(r, c), pc[r] # "done",
           c \in {200, 201} /\ req[r].op # "find" => effects[r] = 1,
           c \in {404, 409} => effects[r] = 0,
           c = 500 => reply[r].kind = "error",
           c # 500 => late[r] = "none",
           c = 409 /\ req[r].op = "delta" => pc[r] = "recheck" /\ reply[r].kind = "row"
    PROVE  EffectOfProgress' /\ RefusalInv'
<1> USE DEF Progress
<1>1. pc'[r] = "done" /\ answer'[r] = c
  BY DEF Respond, TypeInv, TypeOK
<1>2. \A o \in Requests : o # r => pc'[o] = pc[o] /\ answer'[o] = answer[o]
  BY DEF Respond, TypeInv, TypeOK
<1>3. EffectOfProgress'
  BY <1>1, <1>2 DEF EffectOfProgress, Respond
<1>4. ASSUME NEW o \in Requests PROVE RefusalHolds(o)'
  <2>1. CASE o = r
    BY <1>1, <2>1 DEF RefusalHolds, RefusalInv, Respond, Unexplained, Awaits
  <2>2. CASE o # r
    BY <1>2, <2>2 DEF RefusalHolds, RefusalInv, Respond, Unexplained, Awaits
  <2> QED
    BY <2>1, <2>2
<1> QED
  BY <1>3, <1>4 DEF RefusalInv

(* The second statement of a use case is sent before any effect.           *)
LEMMA SendProgress ==
    ASSUME Progress, NEW r \in Requests, NEW s \in {"update", "recheck"},
           Send(r, s), pc[r] # "done", effects[r] = 0, late[r] = "none",
           s = "recheck" => pc[r] = "adjust" /\ reply[r].kind = "empty"
    PROVE  EffectOfProgress' /\ RefusalInv'
<1> USE DEF Progress
<1>1. pc'[r] = s /\ reply'[r] = Pending
  BY DEF Send, TypeInv, TypeOK
<1>2. \A o \in Requests : o # r => pc'[o] = pc[o] /\ reply'[o] = reply[o]
  BY DEF Send, TypeInv, TypeOK
<1>3. EffectOfProgress'
  BY <1>1, <1>2 DEF EffectOfProgress, Send, Pending
<1>4. ASSUME NEW o \in Requests PROVE RefusalHolds(o)'
  <2>1. CASE o = r
    BY <1>1, <2>1 DEF RefusalHolds, RefusalInv, Send, Unexplained, Awaits, Pending,
                      EffectOfProgress
  <2>2. CASE o # r
    BY <1>2, <2>2 DEF RefusalHolds, RefusalInv, Send, Unexplained, Awaits
  <2> QED
    BY <2>1, <2>2
<1> QED
  BY <1>3, <1>4 DEF RefusalInv

(* Every step keeps the two invariants.                                    *)
LEMMA ProgressStep == Progress /\ [Next]_vars => EffectOfProgress' /\ RefusalInv'
<1> SUFFICES ASSUME Progress, [Next]_vars
             PROVE  EffectOfProgress' /\ RefusalInv'
  OBVIOUS
<1> USE DEF Kinds
<1>0. \A r \in Requests : /\ req[r] \in Input
                           /\ req[r].product \in Products
                           /\ req[r].amount \in Int
  BY InputFields DEF Progress, TypeInv, TypeOK
<1>k. /\ \A k \in Kinds : Signal(k) \in Reply /\ Signal(k).kind = k
      /\ \A q \in 0..Int4Max : Returned(q) \in Reply /\ Returned(q).kind = "row"
                                /\ Returned(q).quantity = q
  BY RepliesTyped DEF Signal, Returned
<1>t. table \in Table
  BY DEF Progress, TypeInv, TypeOK
<1>1. ASSUME NEW r \in Requests, Insert(r) PROVE EffectOfProgress' /\ RefusalInv'
  <2> DEFINE q == req[r]
  <2>1. q.amount \in 0..Int4Max /\ q.pick_location \in Locations
    BY <1>0, <1>1, InputFields, TableAssumption
       DEF Progress, TypeInv, OpOfStatement, Insert, Runs, Awaits
  <2>2. Written(table, q.product, q.amount, q.pick_location) \in Table
    BY <1>0, <1>t, <2>1, WrittenInTable
  <2>3. CASE Exists(table, q.product)
    BY <1>1, <1>k, <2>3, ReadsProgress DEF Insert, Runs, Awaits
  <2>4. CASE ~Exists(table, q.product)
    BY <1>1, <1>k, <2>1, <2>2, <2>4, WritesProgress DEF Insert, Runs, Awaits
  <2> QED
    BY <2>3, <2>4
<1>2. ASSUME NEW r \in Requests, Select(r) PROVE EffectOfProgress' /\ RefusalInv'
  <2> DEFINE p == req[r].product
  <2>1. pc[r] \in {"select", "recheck"} /\ reply[r] = Pending
    BY <1>2 DEF Select, Awaits
  <2>2. CASE ~Exists(table, p)
    BY <1>2, <1>k, <2>1, <2>2, ReadsProgress DEF Select
  <2>3. CASE Exists(table, p)
    <3>1. table[p].quantity \in 0..Int4Max
      BY <1>0, <1>t, <2>3, RowInRange
    <3>2. pc[r] = "recheck"
            => restocked[r] \/ table[p].quantity + req[r].amount < 0
      <4> SUFFICES ASSUME pc[r] = "recheck", ~restocked[r]
                   PROVE  table[p].quantity + req[r].amount < 0
        OBVIOUS
      <4>1. ~Matches(table, p, req[r].amount)
        BY <2>1 DEF Progress, RefusalInv, RefusalHolds, Unexplained, Awaits
      <4> QED
        BY <1>0, <2>3, <3>1, <4>1, TableAssumption DEF Matches, Shifted
    <3> QED
      BY <1>2, <1>k, <2>1, <2>3, <3>1, <3>2, ReadsProgress DEF Select
  <2> QED
    BY <2>2, <2>3
<1>3. ASSUME NEW r \in Requests, Update(r) PROVE EffectOfProgress' /\ RefusalInv'
  <2> DEFINE q == req[r]
  <2>1. q.amount \in 0..Int4Max /\ q.pick_location \in Locations
    BY <1>0, <1>3, InputFields, TableAssumption
       DEF Progress, TypeInv, OpOfStatement, Update, Runs, Awaits
  <2>2. Written(table, q.product, q.amount, q.pick_location) \in Table
    BY <1>0, <1>t, <2>1, WrittenInTable
  <2>3. CASE ~Exists(table, q.product)
    BY <1>3, <1>k, <2>3, ReadsProgress DEF Update, Runs, Awaits
  <2>4. CASE Exists(table, q.product)
    BY <1>3, <1>k, <2>1, <2>2, <2>4, WritesProgress DEF Update, Runs, Awaits
  <2> QED
    BY <2>3, <2>4
<1>4. ASSUME NEW r \in Requests, Adjust(r) PROVE EffectOfProgress' /\ RefusalInv'
  <2> DEFINE q == req[r]
  <2>1. q.pick_location \in Locations
    BY <1>0, <1>4, InputFields DEF Progress, TypeInv, OpOfStatement, Adjust, Runs, Awaits
  <2>2. CASE OutOfRange(table, q.product, q.amount)
    BY <1>4, <1>k, <2>2, ReadsProgress DEF Adjust, Runs, Awaits
  <2>3. CASE ~OutOfRange(table, q.product, q.amount) /\ Matches(table, q.product, q.amount)
    <3>1. Adjusted(table, q.product, q.amount, q.pick_location) \in Table
      BY <1>0, <1>t, <2>1, <2>3, AdjustedInTable
    <3>2. Shifted(table, q.product, q.amount) \in 0..Int4Max
      <4>1. table[q.product].quantity \in 0..Int4Max /\ Exists(table, q.product)
        BY <1>0, <1>t, <2>3, RowInRange DEF Matches
      <4> QED
        BY <1>0, <2>3, <4>1, TableAssumption DEF Matches, OutOfRange, Shifted
    <3> QED
      BY <1>4, <1>k, <2>3, <3>1, <3>2, WritesProgress DEF Adjust, Runs, Awaits
  <2>4. CASE ~OutOfRange(table, q.product, q.amount) /\ ~Matches(table, q.product, q.amount)
    BY <1>4, <1>k, <2>4, ReadsProgress DEF Adjust, Runs, Awaits
  <2> QED
    BY <2>2, <2>3, <2>4
<1>5. ASSUME NEW r \in Requests, Delete(r) PROVE EffectOfProgress' /\ RefusalInv'
  <2>1. Deleted(table, req[r].product) \in Table
    BY <1>0, <1>t, DeletedInTable
  <2>2. 0 \in 0..Int4Max
    BY TableAssumption
  <2>3. CASE Exists(table, req[r].product)
    BY <1>5, <1>k, <2>1, <2>2, <2>3, WritesProgress DEF Delete, Runs, Awaits
  <2>4. CASE ~Exists(table, req[r].product)
    BY <1>5, <1>k, <2>4, ReadsProgress DEF Delete, Runs, Awaits
  <2> QED
    BY <2>3, <2>4
<1>6. ASSUME NEW r \in Requests, LoseConnection(r)
      PROVE  EffectOfProgress' /\ RefusalInv'
  <2>1. reply'[r].kind = "error" /\ reply'[r] # Pending
    BY <1>6, <1>k DEF LoseConnection, Progress, TypeInv, TypeOK, Pending, Signal
  <2>2. \A o \in Requests : o # r => reply'[o] = reply[o]
    BY <1>6 DEF LoseConnection, Progress, TypeInv, TypeOK
  <2>f. failures' > 0 /\ failures \in Nat
    BY <1>6, FailuresAssumption DEF LoseConnection, Progress, TypeInv, TypeOK
  <2>l. \A o \in Requests : o # r => late'[o] = late[o]
    BY <1>6 DEF LoseConnection, Progress, TypeInv, TypeOK
  <2>m. late'[r] # "none" => /\ effects[r] = 0 /\ answer[r] = 0
                            /\ pc[r] = late'[r]
    BY <1>6 DEF LoseConnection, Progress, TypeInv, TypeOK, EffectOfProgress, Pending
  <2>3. EffectOfProgress'
    BY <1>6, <2>1, <2>2, <2>f, <2>l, <2>m
       DEF LoseConnection, Progress, EffectOfProgress
  <2>4. ASSUME NEW o \in Requests PROVE RefusalHolds(o)'
    <3>1. CASE o = r
      BY <1>6, <2>1, <3>1 DEF RefusalHolds, Unexplained, Awaits, LoseConnection,
                              Progress, EffectOfProgress
    <3>2. CASE o # r
      BY <1>6, <2>2, <3>2 DEF RefusalHolds, RefusalInv, Unexplained, Awaits,
                              LoseConnection, Progress
    <3> QED
      BY <3>1, <3>2
  <2> QED
    BY <2>3, <2>4 DEF RefusalInv
<1>7. ASSUME NEW r \in Requests, UseCase(r) PROVE EffectOfProgress' /\ RefusalInv'
  <2>e. EffectOfProgress /\ TypeInv
    BY DEF Progress
  <2>1. CASE Created(r)
    BY <2>1, <2>e, RespondProgress DEF Created, Resumes, EffectOfProgress
  <2>2. CASE Found(r)
    <3>1. /\ pc[r] = "select" /\ effects[r] = 0 /\ late[r] = "none"
          /\ req[r].op \in {"find", "set"}
      BY <2>2, <2>e DEF Found, Resumes, EffectOfProgress, TypeInv, OpOfStatement
    <3>2. CASE req[r].op = "set"
      BY <2>2, <3>1, <3>2, SendProgress DEF Found
    <3>3. CASE req[r].op = "find"
      BY <2>2, <3>1, <3>3, RespondProgress DEF Found
    <3> QED
      BY <3>1, <3>2, <3>3
  <2>3. CASE Changed(r)
    BY <2>3, <2>e, RespondProgress DEF Changed, Resumes, EffectOfProgress
  <2>4. CASE Unmatched(r)
    BY <2>4, <2>e, SendProgress DEF Unmatched, Resumes, EffectOfProgress
  <2>5. CASE Removed(r)
    BY <2>5, <2>e, RespondProgress DEF Removed, Resumes, EffectOfProgress
  <2>6. CASE NotFound(r)
    BY <2>6, <2>e, RespondProgress DEF NotFound, Resumes, EffectOfProgress
  <2>7. CASE Conflict(r)
    BY <2>7, <2>e, RespondProgress
       DEF Conflict, Resumes, EffectOfProgress, TypeInv, OpOfStatement
  <2>8. CASE ServerError(r)
    BY <2>8, <2>e, RespondProgress DEF ServerError, EffectOfProgress
  <2> QED
    BY <1>7, <2>1, <2>2, <2>3, <2>4, <2>5, <2>6, <2>7, <2>8 DEF UseCase
<1>8. CASE UNCHANGED vars
  BY <1>8 DEF vars, Progress, EffectOfProgress, RefusalInv, RefusalHolds,
              Unexplained, Awaits
<1> QED
  BY <1>1, <1>2, <1>3, <1>4, <1>5, <1>6, <1>7, <1>8
     DEF Next, Database, AllAnswered

(* The invariants hold of every behaviour.                                 *)
LEMMA ProgressHolds == Spec => [](EffectOfProgress /\ RefusalInv)
<1>1. Init => EffectOfProgress /\ RefusalInv
  <2> SUFFICES ASSUME Init PROVE EffectOfProgress /\ RefusalInv
    OBVIOUS
  <2>1. \A r \in Requests : /\ reply[r].kind = "none"
                             /\ effects[r] = 0 /\ answer[r] = 0
                             /\ late[r] = "none"
    BY DEF Init, Pending
  <2>2. \A r \in Requests : req[r].op \in {"create", "set", "delta", "find", "delete"}
    BY InputFields DEF Init
  <2>3. \A r \in Requests : pc[r] \in {"insert", "adjust", "delete", "select"}
    BY <2>2 DEF Init, FirstStatement
  <2>4. EffectOfProgress
    BY <2>1, <2>3 DEF EffectOfProgress
  <2>5. RefusalInv
    BY <2>1, <2>3 DEF RefusalInv, RefusalHolds, Unexplained, Awaits
  <2> QED
    BY <2>4, <2>5
<1>2. TypeInv /\ (EffectOfProgress /\ RefusalInv) /\ [Next]_vars
        => (EffectOfProgress /\ RefusalInv)'
  BY ProgressStep DEF Progress
<1> QED
  BY <1>1, <1>2, TypeInvHolds, PTL DEF Spec

(* Across every interleaving of statements, lost connections and late      *)
(* statements a request changes the table at most once; a 2xx to a write   *)
(* says it did, a 4xx that it never does, and a 500 follows the change     *)
(* only if the database failed.                                            *)
THEOREM AnswersAreHonest == Spec => []AnswerMatchesEffect
<1>1. EffectOfProgress /\ RefusalInv => AnswerMatchesEffect
  BY DEF EffectOfProgress, AnswerMatchesEffect
<1> QED
  BY <1>1, ProgressHolds, PTL

(* A delta is refused although the quantity its 409 quotes allows it only  *)
(* when its product was restocked between the guarded UPDATE and the       *)
(* SELECT that explains it.                                                *)
THEOREM FalseRefusals == Spec => []FalseRefusalNeedsRestock
<1>1. TypeInv /\ EffectOfProgress /\ RefusalInv => FalseRefusalNeedsRestock
  <2> SUFFICES ASSUME TypeInv, RefusalInv, NEW r \in Requests,
                      req[r].op = "delta", answer[r] = 409,
                      reply[r].quantity + req[r].amount >= 0
               PROVE  restocked[r]
    BY DEF FalseRefusalNeedsRestock
  <2>1. reply[r].quantity \in Int /\ req[r].amount \in Int
    BY InputFields, TableAssumption DEF TypeInv, TypeOK, Reply
  <2> QED
    BY <2>1 DEF RefusalInv, RefusalHolds
<1> QED
  BY <1>1, ProgressHolds, TypeInvHolds, PTL

-----------------------------------------------------------------------------
(* The refinement of StockContract.                                        *)

(* A well-formed table shows a well-formed stock.                          *)
LEMMA StockTyped ==
    ASSUME NEW t \in Table
    PROVE  Stock(t) \in [Products -> {-1} \cup 0..Int4Max]
  BY RowInRange DEF Stock

(* A write is the contract's Apply when it leaves behind a stock value the *)
(* contract allows the request, and touches no other product: also when    *)
(* nobody awaits it any more.                                              *)
LEMMA WriteApplies ==
    ASSUME Progress, NEW r \in Requests, NEW t \in Table,
           NEW rep \in Reply, Writes(r, t, rep),
           late[r] = "none" => pc[r] # "done" /\ reply[r] = Pending,
           NEW v \in Contract!Effect(req[r], Stock(table)[req[r].product]),
           Stock(t) = [Stock(table) EXCEPT ![req[r].product] = v]
    PROVE  Contract!Apply(r)
<1>1. effects[r] = 0 /\ answer[r] \in {0, 500}
  BY DEF Progress, EffectOfProgress, Pending
<1>2. r \notin Applied /\ Applied' = Applied \cup {r}
  BY <1>1 DEF Applied, Writes, Progress, TypeInv, TypeOK
<1>3. Verdict[r] \in {"none", "unknown"} /\ Verdict' = Verdict /\ req' = req
  BY <1>1 DEF Verdict, Told, Writes
<1>4. Stock(table)' = Stock(t)
  BY DEF Writes, Stock, Exists
<1> QED
  BY <1>2, <1>3, <1>4 DEF Contract!Apply

(* A statement without effect, and whatever else leaves table, effects and *)
(* answers alone, is invisible.                                            *)
LEMMA Invisible ==
    ASSUME UNCHANGED <<table, req, effects, answer>>
    PROVE  UNCHANGED Contract!vars
<1>1. Stock(table)' = Stock(table)
  BY DEF Stock, Exists
<1>2. Applied' = Applied /\ Verdict' = Verdict
  BY DEF Applied, Verdict, Told
<1> QED
  BY <1>1, <1>2 DEF Contract!vars

(* Answering is the contract's Tell.                                       *)
LEMMA RespondTells ==
    ASSUME Progress, NEW r \in Requests, NEW c \in {200, 201, 404, 409, 500},
           Respond(r, c), pc[r] # "done"
    PROVE  Contract!Tell(r, Told(c))
<1>1. answer[r] = 0 /\ answer' = [answer EXCEPT ![r] = c]
  BY DEF Respond, Progress, EffectOfProgress
<1>2. Verdict[r] = "none"
  BY <1>1 DEF Verdict, Told
<1>4. Verdict' = [Verdict EXCEPT ![r] = Told(c)]
  <2>1. Verdict' = [o \in Requests |-> Told(answer'[o])]
    BY DEF Verdict, Told
  <2>2. \A o \in Requests : answer'[o] = IF o = r THEN c ELSE answer[o]
    BY <1>1 DEF Progress, TypeInv, TypeOK
  <2>3. \A o \in Requests :
          Told(answer'[o]) = IF o = r THEN Told(c) ELSE Told(answer[o])
    <3> SUFFICES ASSUME NEW o \in Requests
                 PROVE  Told(answer'[o]) = IF o = r THEN Told(c) ELSE Told(answer[o])
      OBVIOUS
    <3>1. CASE o = r
      BY <2>2, <3>1
    <3>2. CASE o # r
      BY <2>2, <3>2
    <3> QED
      BY <3>1, <3>2
  <2>4. Verdict = [o \in Requests |-> Told(answer[o])]
    BY DEF Verdict
  <2> QED
    BY <2>1, <2>3, <2>4
<1>3. Stock(table)' = Stock(table) /\ Applied' = Applied /\ req' = req
  BY DEF Stock, Exists, Applied, Respond
<1> QED
  BY <1>2, <1>3, <1>4 DEF Contract!Tell

(* Every step is a step of the contract or invisible to it.                *)
LEMMA ContractStep == Progress /\ [Next]_vars => [Contract!Next]_Contract!vars
<1> SUFFICES ASSUME Progress, [Next]_vars
             PROVE  [Contract!Next]_Contract!vars
  OBVIOUS
<1>0. /\ table \in Table
      /\ \A r \in Requests : /\ req[r] \in Input
                              /\ req[r].product \in Products
                              /\ req[r].amount \in Int
  BY InputFields DEF Progress, TypeInv, TypeOK
<1>r. ASSUME NEW r \in Requests, NEW rep, Reads(r, rep)
      PROVE  UNCHANGED Contract!vars
  BY <1>r, Invisible DEF Reads
<1>w. ASSUME NEW r \in Requests, Contract!Apply(r) PROVE Contract!Next
  BY <1>w DEF Contract!Next
<1>k. \A q \in 0..Int4Max : Returned(q) \in Reply
  BY RepliesTyped
<1>s. \A p \in Products :
        Stock(table)[p] = IF Exists(table, p) THEN table[p].quantity ELSE -1
  BY DEF Stock
<1>1. ASSUME NEW r \in Requests, Insert(r) PROVE [Contract!Next]_Contract!vars
  <2> DEFINE q == req[r]
             t == Written(table, q.product, q.amount, q.pick_location)
  <2>1. /\ q.op = "create"
        /\ q.amount \in 0..Int4Max
        /\ q.pick_location \in Locations
    BY <1>0, <1>1, InputFields, TableAssumption
       DEF Progress, TypeInv, OpOfStatement, Insert, Runs, Awaits
  <2>2. CASE Exists(table, q.product)
    BY <1>1, <1>r, <2>2 DEF Insert
  <2>3. CASE ~Exists(table, q.product)
    <3>1. t \in Table
      BY <1>0, <2>1, WrittenInTable
    <3>2. t[q.product].quantity = q.amount /\ Exists(t, q.product)
      BY <1>0, <2>1, <3>1, TableAssumption DEF Written, Table, Exists, Row
    <3>3. Stock(t) = [Stock(table) EXCEPT ![q.product] = q.amount]
      BY <1>0, <3>2 DEF Stock, Written, Exists, Table
    <3>4. q.amount \in Contract!Effect(q, Stock(table)[q.product])
      BY <1>0, <1>s, <2>1, <2>3 DEF Contract!Effect, Contract!Missing
    <3>5. Writes(r, t, Returned(q.amount))
          /\ (late[r] = "none" => pc[r] # "done" /\ reply[r] = Pending)
      BY <1>1, <2>3 DEF Insert, Runs, Awaits
    <3> HIDE DEF t
    <3> QED
      BY <1>k, <1>w, <2>1, <3>1, <3>3, <3>4, <3>5, WriteApplies
  <2> QED
    BY <2>2, <2>3
<1>2. ASSUME NEW r \in Requests, Select(r) PROVE [Contract!Next]_Contract!vars
  BY <1>2, <1>r DEF Select
<1>3. ASSUME NEW r \in Requests, Update(r) PROVE [Contract!Next]_Contract!vars
  <2> DEFINE q == req[r]
             t == Written(table, q.product, q.amount, q.pick_location)
  <2>1. /\ q.op = "set"
        /\ q.amount \in 0..Int4Max
        /\ q.pick_location \in Locations
    BY <1>0, <1>3, InputFields, TableAssumption
       DEF Progress, TypeInv, OpOfStatement, Update, Runs, Awaits
  <2>2. CASE ~Exists(table, q.product)
    BY <1>3, <1>r, <2>2 DEF Update
  <2>3. CASE Exists(table, q.product)
    <3>1. t \in Table
      BY <1>0, <2>1, WrittenInTable
    <3>2. t[q.product].quantity = q.amount /\ Exists(t, q.product)
      BY <1>0, <2>1, <3>1, TableAssumption DEF Written, Table, Exists, Row
    <3>3. Stock(t) = [Stock(table) EXCEPT ![q.product] = q.amount]
      BY <1>0, <3>2 DEF Stock, Written, Exists, Table
    <3>4. table[q.product].quantity \in 0..Int4Max
      BY <1>0, <2>3, RowInRange
    <3>5. q.amount \in Contract!Effect(q, Stock(table)[q.product])
      BY <1>0, <1>s, <2>1, <2>3, <3>4 DEF Contract!Effect, Contract!Missing
    <3>6. Writes(r, t, Returned(q.amount))
          /\ (late[r] = "none" => pc[r] # "done" /\ reply[r] = Pending)
      BY <1>3, <2>3 DEF Update, Runs, Awaits
    <3> HIDE DEF t
    <3> QED
      BY <1>k, <1>w, <2>1, <3>1, <3>3, <3>5, <3>6, WriteApplies
  <2> QED
    BY <2>2, <2>3
<1>4. ASSUME NEW r \in Requests, Adjust(r) PROVE [Contract!Next]_Contract!vars
  <2> DEFINE q == req[r]
             v == Shifted(table, q.product, q.amount)
             t == Adjusted(table, q.product, q.amount, q.pick_location)
  <2>1. q.op = "delta" /\ q.pick_location \in Locations
    BY <1>0, <1>4, InputFields
       DEF Progress, TypeInv, OpOfStatement, Adjust, Runs, Awaits
  <2>2. CASE \/ OutOfRange(table, q.product, q.amount)
             \/ ~Matches(table, q.product, q.amount)
    BY <1>4, <1>r, <2>2 DEF Adjust
  <2>3. CASE /\ ~OutOfRange(table, q.product, q.amount)
             /\ Matches(table, q.product, q.amount)
    <3>1. t \in Table
      BY <1>0, <2>1, <2>3, AdjustedInTable
    <3>2. Exists(table, q.product) /\ table[q.product].quantity \in 0..Int4Max
      BY <1>0, <2>3, RowInRange DEF Matches
    <3>3. v \in 0..Int4Max
      BY <1>0, <2>3, <3>2, TableAssumption DEF Matches, OutOfRange, Shifted
    <3>4. t[q.product].quantity = v /\ Exists(t, q.product)
      BY <1>0, <2>1, <2>3, AdjustedRow
    <3>5. Stock(t) = [Stock(table) EXCEPT ![q.product] = v]
      BY <1>0, <3>4 DEF Stock, Adjusted, Exists, Table
    <3>6. v \in Contract!Effect(q, Stock(table)[q.product])
      BY <1>0, <1>s, <2>1, <3>2, <3>3 DEF Contract!Effect, Contract!Missing, Shifted
    <3>7. Writes(r, t, Returned(v))
          /\ (late[r] = "none" => pc[r] # "done" /\ reply[r] = Pending)
      BY <1>4, <2>3 DEF Adjust, Runs, Awaits
    <3> HIDE DEF t, v
    <3> QED
      BY <1>k, <1>w, <3>1, <3>3, <3>5, <3>6, <3>7, WriteApplies
  <2> QED
    BY <2>2, <2>3
<1>5. ASSUME NEW r \in Requests, Delete(r) PROVE [Contract!Next]_Contract!vars
  <2> DEFINE q == req[r]
             t == Deleted(table, q.product)
  <2>1. q.op = "delete"
    BY <1>5 DEF Progress, TypeInv, OpOfStatement, Delete, Runs, Awaits
  <2>2. CASE ~Exists(table, q.product)
    BY <1>5, <1>r, <2>2 DEF Delete
  <2>3. CASE Exists(table, q.product)
    <3>1. t \in Table /\ 0 \in 0..Int4Max
      BY <1>0, DeletedInTable, TableAssumption
    <3>2. ~Exists(t, q.product)
      BY <1>0 DEF Deleted, Table, Exists
    <3>3. Stock(t) = [Stock(table) EXCEPT ![q.product] = -1]
      BY <1>0, <3>2 DEF Stock, Deleted, Exists, Table
    <3>4. table[q.product].quantity \in 0..Int4Max
      BY <1>0, <2>3, RowInRange
    <3>5. -1 \in Contract!Effect(q, Stock(table)[q.product])
      BY <1>0, <1>s, <2>1, <2>3, <3>4 DEF Contract!Effect, Contract!Missing
    <3>6. Writes(r, t, Returned(0))
          /\ (late[r] = "none" => pc[r] # "done" /\ reply[r] = Pending)
      BY <1>5, <2>3 DEF Delete, Runs, Awaits
    <3> HIDE DEF t
    <3> QED
      BY <1>k, <1>w, <3>1, <3>3, <3>5, <3>6, WriteApplies
  <2> QED
    BY <2>2, <2>3
<1>6. ASSUME NEW r \in Requests, LoseConnection(r)
      PROVE  [Contract!Next]_Contract!vars
  BY <1>6, Invisible DEF LoseConnection
<1>7. ASSUME NEW r \in Requests, UseCase(r) PROVE [Contract!Next]_Contract!vars
  <2>t. \A c : Contract!Tell(r, Told(c)) /\
          \/ c = 500
          \/ c \in {404, 409} /\ effects[r] = 0
          \/ c \in {200, 201} /\ (effects[r] = 1 \/ req[r].op = "find")
          => Contract!Next
    BY DEF Contract!Next, Contract!Accept, Contract!Refuse, Contract!Fail, Told,
           Applied
  <2>e. EffectOfProgress /\ TypeInv
    BY DEF Progress
  <2>1. CASE Created(r)
    BY <2>1, <2>e, <2>t, RespondTells DEF Created, Resumes, EffectOfProgress
  <2>2. CASE Found(r)
    <3>1. pc[r] = "select" /\ req[r].op \in {"find", "set"}
      BY <2>2, <2>e DEF Found, Resumes, TypeInv, OpOfStatement
    <3>2. CASE req[r].op = "set"
      BY <2>2, <3>2, Invisible DEF Found, Send
    <3>3. CASE req[r].op = "find"
      BY <2>2, <2>t, <3>1, <3>3, RespondTells DEF Found
    <3> QED
      BY <3>1, <3>2, <3>3
  <2>3. CASE Changed(r)
    BY <2>3, <2>e, <2>t, RespondTells DEF Changed, Resumes, EffectOfProgress
  <2>4. CASE Unmatched(r)
    BY <2>4, Invisible DEF Unmatched, Send
  <2>5. CASE Removed(r)
    BY <2>5, <2>e, <2>t, RespondTells DEF Removed, Resumes, EffectOfProgress
  <2>6. CASE NotFound(r)
    BY <2>6, <2>e, <2>t, RespondTells DEF NotFound, Resumes, EffectOfProgress
  <2>7. CASE Conflict(r)
    BY <2>7, <2>e, <2>t, RespondTells DEF Conflict, Resumes, EffectOfProgress
  <2>8. CASE ServerError(r)
    BY <2>8, <2>e, <2>t, RespondTells DEF ServerError
  <2> QED
    BY <1>7, <2>1, <2>2, <2>3, <2>4, <2>5, <2>6, <2>7, <2>8 DEF UseCase
<1>8. CASE UNCHANGED vars
  BY <1>8, Invisible DEF vars
<1> QED
  BY <1>1, <1>2, <1>3, <1>4, <1>5, <1>6, <1>7, <1>8
     DEF Next, Database, AllAnswered

(* The endpoints implement the stock contract: each request has at most    *)
(* one indivisible, guarded effect, and its answer is true to it.          *)
THEOREM Refinement == Spec => ImplementsContract
<1>1. Init => Contract!Init
  <2> SUFFICES ASSUME Init PROVE Contract!Init
    OBVIOUS
  <2>1. Stock(table) \in [Products -> {-1} \cup 0..Int4Max]
    BY StockTyped DEF Init
  <2>2. Applied = {}
    BY DEF Init, Applied
  <2>3. Verdict = [r \in Requests |-> "none"]
    BY DEF Init, Verdict, Told
  <2> QED
    BY <2>1, <2>2, <2>3 DEF Contract!Init, Contract!Missing
<1>2. TypeInv /\ (EffectOfProgress /\ RefusalInv) /\ [Next]_vars
        => [Contract!Next]_Contract!vars
  BY ContractStep DEF Progress
<1> QED
  BY <1>1, <1>2, TypeInvHolds, ProgressHolds, PTL
     DEF Spec, ImplementsContract, Contract!Spec
=============================================================================
