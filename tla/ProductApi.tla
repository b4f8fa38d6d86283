----------------------------- MODULE ProductApi -----------------------------
(***************************************************************************)
(* The product endpoints, one SQL statement at a time.  A request that     *)
(* passed authentication and validation runs its use case, which sends one *)
(* or two statements through the pool.  Sending a statement and acting on  *)
(* its result are two steps (the code awaits in between), so statements of *)
(* concurrent requests interleave in every order.  The connection may be   *)
(* lost before a statement was sent, after it committed, or in between:    *)
(* nothing cancels what the server has received, so it may still run long  *)
(* after the client has its 500.                                           *)
(***************************************************************************)
EXTENDS ProductTable

CONSTANTS
    Requests,       \* the HTTP requests in flight, over any number of replicas
    MaxFailures     \* bound on the database failures of a behaviour

ASSUME FailuresAssumption == MaxFailures \in Nat

(* The inputs the schemas let through (schemas.ts).                        *)
Input ==
    [op : {"create", "set"}, product : Products, amount : 0..MaxQuantity,
     pick_location : Locations]
    \cup
    [op : {"delta"}, product : Products,
     amount : (-MaxQuantity..MaxQuantity) \ {0}, pick_location : Locations]
    \cup
    [op : {"find", "delete"}, product : Products, amount : {0},
     pick_location : {NoLocation}]

Statements == {"insert", "select", "update", "adjust", "recheck", "delete"}

Changing == {"insert", "update", "adjust", "delete"}

(* What the driver hands back: the quantity of a returned row, no row at   *)
(* all, a unique violation, or any other error.                            *)
Reply == [kind : {"none", "row", "empty", "duplicate", "error"},
          quantity : 0..Int4Max]

Pending == [kind |-> "none", quantity |-> 0]
Returned(q) == [kind |-> "row", quantity |-> q]
Signal(k) == [kind |-> k, quantity |-> 0]

VARIABLES
    table,      \* the products table
    req,        \* req[r]: the validated input of request r
    pc,         \* pc[r]: the statement r awaits, or "done"
    reply,      \* reply[r]: the result of that statement, Pending before it ran
    late,       \* late[r]: the statement of r the server may still run although
                \* its connection is gone, or "none"
    answer,     \* answer[r]: HTTP status, 0 until r is answered
    effects,    \* history: how many statements of r changed the table
    restocked,  \* history: r's product gained stock between r's guarded
                \* UPDATE and the SELECT that explains why it matched no row
    failures    \* how many database failures happened

vars == <<table, req, pc, reply, late, answer, effects, restocked, failures>>

FirstStatement(op) ==
    CASE op = "create" -> "insert"
      [] op = "delta"  -> "adjust"
      [] op = "delete" -> "delete"
      [] OTHER         -> "select"

Init ==
    /\ table \in Table
    /\ req \in [Requests -> Input]
    /\ pc = [r \in Requests |-> FirstStatement(req[r].op)]
    /\ reply = [r \in Requests |-> Pending]
    /\ late = [r \in Requests |-> "none"]
    /\ answer = [r \in Requests |-> 0]
    /\ effects = [r \in Requests |-> 0]
    /\ restocked = [r \in Requests |-> FALSE]
    /\ failures = 0

-----------------------------------------------------------------------------
(* The database runs the statement a request awaits, or one that nobody    *)
(* awaits any more.                                                        *)

Awaits(r, s) == pc[r] = s /\ reply[r] = Pending

Runs(r, s) == Awaits(r, s) \/ late[r] = s

(* The result goes to whoever awaits it.                                   *)
Returns(r, rep) ==
    /\ reply' = IF late[r] = "none" THEN [reply EXCEPT ![r] = rep] ELSE reply
    /\ late' = [late EXCEPT ![r] = "none"]

(* r's guarded UPDATE matched no row and the explaining SELECT is to come. *)
Unexplained(r) ==
    \/ pc[r] = "adjust" /\ reply[r].kind = "empty"
    \/ Awaits(r, "recheck")

Reads(r, rep) ==
    /\ Returns(r, rep)
    /\ UNCHANGED <<table, req, pc, answer, effects, restocked, failures>>

Writes(r, t, rep) ==
    /\ table' = t
    /\ Returns(r, rep)
    /\ effects' = [effects EXCEPT ![r] = @ + 1]
    /\ restocked' = [o \in Requests |->
                        \/ restocked[o]
                        \/ Unexplained(o) /\ Restocked(table, t, req[o].product)]
    /\ UNCHANGED <<req, pc, answer, failures>>

(* Mutant: ON CONFLICT (product_code) DO UPDATE.                           *)
Upsert(r) ==
    LET q == req[r] IN
    /\ Runs(r, "insert")
    /\ Writes(r, Written(table, q.product, q.amount, q.pick_location),
              Returned(q.amount))

Insert(r) ==
    LET q == req[r] IN
    /\ Runs(r, "insert")
    /\ IF Exists(table, q.product)
         THEN Reads(r, Signal("duplicate"))
         ELSE Writes(r, Written(table, q.product, q.amount, q.pick_location),
                     Returned(q.amount))

(* findByID, and the SELECT of applyQuantityDelta that tells a missing     *)
(* product from a rejected delta.                                          *)
Select(r) ==
    LET p == req[r].product IN
    /\ Awaits(r, "select") \/ Awaits(r, "recheck")
    /\ Reads(r, IF Exists(table, p) THEN Returned(table[p].quantity)
                                    ELSE Signal("empty"))

Update(r) ==
    LET q == req[r] IN
    /\ Runs(r, "update")
    /\ IF Exists(table, q.product)
         THEN Writes(r, Written(table, q.product, q.amount, q.pick_location),
                     Returned(q.amount))
         ELSE Reads(r, Signal("empty"))

Adjust(r) ==
    LET q == req[r] IN
    /\ Runs(r, "adjust")
    /\ IF OutOfRange(table, q.product, q.amount)
         THEN Reads(r, Signal("error"))
         ELSE IF Matches(table, q.product, q.amount)
           THEN Writes(r, Adjusted(table, q.product, q.amount, q.pick_location),
                       Returned(Shifted(table, q.product, q.amount)))
           ELSE Reads(r, Signal("empty"))

Delete(r) ==
    LET p == req[r].product IN
    /\ Runs(r, "delete")
    /\ IF Exists(table, p) THEN Writes(r, Deleted(table, p), Returned(0))
                           ELSE Reads(r, Signal("empty"))

(* The pool cannot reach the database, or loses the connection: the        *)
(* awaited promise rejects.  The statement was never sent or has already   *)
(* run, or the server has it and may run it whenever the lock it waits for *)
(* is free, since the pool sets no statement_timeout and cancels nothing.  *)
LoseConnection(r) ==
    /\ failures < MaxFailures
    /\ pc[r] \in Statements
    /\ reply[r].kind # "error"
    /\ reply' = [reply EXCEPT ![r] = Signal("error")]
    /\ \/ UNCHANGED late
       \/ /\ reply[r] = Pending /\ pc[r] \in Changing
          /\ late' = [late EXCEPT ![r] = pc[r]]
    /\ failures' = failures + 1
    /\ UNCHANGED <<table, req, pc, answer, effects, restocked>>

-----------------------------------------------------------------------------
(* The use case resumes with the result of the statement it awaited.       *)

Resumes(r, s, k) == pc[r] = s /\ reply[r].kind = k

Respond(r, status) ==
    /\ answer' = [answer EXCEPT ![r] = status]
    /\ pc' = [pc EXCEPT ![r] = "done"]
    /\ UNCHANGED <<table, req, reply, late, effects, restocked, failures>>

Send(r, s) ==
    /\ pc' = [pc EXCEPT ![r] = s]
    /\ reply' = [reply EXCEPT ![r] = Pending]
    /\ UNCHANGED <<table, req, late, answer, effects, restocked, failures>>

Created(r) == Resumes(r, "insert", "row") /\ Respond(r, 201)

Found(r) ==
    /\ Resumes(r, "select", "row")
    /\ IF req[r].op = "set" THEN Send(r, "update") ELSE Respond(r, 200)

Changed(r) ==
    /\ Resumes(r, "update", "row") \/ Resumes(r, "adjust", "row")
    /\ Respond(r, 200)

Unmatched(r) == Resumes(r, "adjust", "empty") /\ Send(r, "recheck")

Removed(r) == Resumes(r, "delete", "row") /\ Respond(r, 200)

NotFound(r) ==
    /\ \E s \in {"select", "update", "recheck", "delete"} : Resumes(r, s, "empty")
    /\ Respond(r, 404)

Conflict(r) ==
    /\ Resumes(r, "insert", "duplicate") \/ Resumes(r, "recheck", "row")
    /\ Respond(r, 409)

(* Mutant: a statement whose connection failed is sent again.              *)
SendAgain(r) ==
    /\ pc[r] \in Statements
    /\ reply[r].kind = "error"
    /\ Send(r, pc[r])

(* Not an AppError: handlingErrors, or createProductUseCase, answers 500.  *)
ServerError(r) ==
    /\ pc[r] \in Statements
    /\ reply[r].kind = "error"
    /\ Respond(r, 500)

Database(r) ==
    Insert(r) \/ Select(r) \/ Update(r) \/ Adjust(r) \/ Delete(r)

UseCase(r) ==
    \/ Created(r) \/ Found(r) \/ Changed(r) \/ Unmatched(r) \/ Removed(r)
    \/ NotFound(r) \/ Conflict(r) \/ ServerError(r)

AllAnswered == (\A r \in Requests : pc[r] = "done") /\ UNCHANGED vars

Next ==
    \/ \E r \in Requests : Database(r) \/ UseCase(r) \/ LoseConnection(r)
    \/ AllAnswered

Spec == Init /\ [][Next]_vars

-----------------------------------------------------------------------------
TypeOK ==
    /\ table \in Table
    /\ req \in [Requests -> Input]
    /\ pc \in [Requests -> Statements \cup {"done"}]
    /\ reply \in [Requests -> Reply]
    /\ late \in [Requests -> Changing \cup {"none"}]
    /\ answer \in [Requests -> {0, 200, 201, 404, 409, 500}]
    /\ effects \in [Requests -> Nat]
    /\ restocked \in [Requests -> BOOLEAN]
    /\ failures \in 0..MaxFailures

(* Across the interleavings of statements, lost connections and statements *)
(* that outlive theirs, a request changes the table at most once; a write  *)
(* answered 2xx has changed it, a request answered 4xx has not and never   *)
(* will; one answered 500 has only if the database failed, and not because *)
(* the delta overflowed (createProduct, updateProduct, deleteProduct and   *)
(* the repository methods they call).                                      *)
AnswerMatchesEffect ==
    \A r \in Requests :
        /\ effects[r] <= 1
        /\ answer[r] \in {200, 201} /\ req[r].op # "find" => effects[r] = 1
        /\ answer[r] \in {404, 409} => effects[r] = 0
        /\ answer[r] = 500 /\ effects[r] = 1 => failures > 0

(* A delta refused with a 409 whose quoted current quantity would have     *)
(* allowed it: only when another request gave the product stock between    *)
(* the guarded UPDATE and the explaining SELECT of applyQuantityDelta.     *)
(* Sales, deletions and failures alone never produce a false refusal.      *)
FalseRefusalNeedsRestock ==
    \A r \in Requests :
        /\ req[r].op = "delta"
        /\ answer[r] = 409
        /\ reply[r].quantity + req[r].amount >= 0
        => restocked[r]

(* productErrors.ts: the 409 of a delta says that applying it to the       *)
(* current quantity it quotes would result in negative stock.              *)
RefusalMessageIsTrue ==
    \A r \in Requests :
        req[r].op = "delta" /\ answer[r] = 409
        => reply[r].quantity + req[r].amount < 0

(* What the contract sees of the table, of the effects and of an answer.   *)
Stock(t) == [p \in Products |-> IF Exists(t, p) THEN t[p].quantity ELSE -1]

Applied == {r \in Requests : effects[r] > 0}

Told(status) ==
    IF status = 0 THEN "none"
    ELSE IF status \in {200, 201} THEN "success"
    ELSE IF status \in {404, 409} THEN "refused" ELSE "unknown"

Verdict == [r \in Requests |-> Told(answer[r])]

Contract == INSTANCE StockContract WITH
    stock <- Stock(table), applied <- Applied, verdict <- Verdict

(* Every step of the statements is a step of the contract or invisible to  *)
(* it: stock moves only in one indivisible, guarded effect per request,    *)
(* and the answer tells the client the truth about it.  A statement that   *)
(* outlives its connection is such an effect too, after the 500.           *)
ImplementsContract == Contract!Spec
=============================================================================
