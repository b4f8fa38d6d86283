---------------------------- MODULE StockContract ---------------------------
(***************************************************************************)
(* What the products API promises its clients about stock, whatever the    *)
(* statements it is made of: a request changes the stock of its product    *)
(* at most once, in one indivisible step computed from the stock at that   *)
(* moment; one answered with success has done so, one answered with a 4xx  *)
(* never has and never will.  After a 5xx the client does not know: the    *)
(* change may have happened, may happen later, or never.                   *)
(***************************************************************************)
EXTENDS Integers

CONSTANTS Products, Requests, Int4Max

Missing == -1                      \* the product does not exist

VARIABLES
    stock,      \* stock[p]: Missing, or the quantity of p
    req,        \* req[r]: what request r asks for
    applied,    \* the requests that have changed the stock
    verdict     \* verdict[r]: what r's client was told

vars == <<stock, req, applied, verdict>>

(* The stock values request q may leave behind when it finds s; none when  *)
(* it must be refused.                                                     *)
Effect(q, s) ==
    {v \in {Missing} \cup 0..Int4Max :
        \/ q.op = "create" /\ s = Missing /\ v = q.amount
        \/ q.op = "set"    /\ s # Missing /\ v = q.amount
        \/ q.op = "delete" /\ s # Missing /\ v = Missing
        \/ q.op = "delta"  /\ s # Missing /\ v = s + q.amount /\ v # Missing}

Init ==
    /\ stock \in [Products -> {Missing} \cup 0..Int4Max]
    /\ applied = {}
    /\ verdict = [r \in Requests |-> "none"]

Apply(r) ==
    /\ verdict[r] \in {"none", "unknown"}
    /\ r \notin applied
    /\ \E v \in Effect(req[r], stock[req[r].product]) :
          stock' = [stock EXCEPT ![req[r].product] = v]
    /\ applied' = applied \cup {r}
    /\ UNCHANGED <<req, verdict>>

Tell(r, v) ==
    /\ verdict[r] = "none"
    /\ verdict' = [verdict EXCEPT ![r] = v]
    /\ UNCHANGED <<stock, req, applied>>

Accept(r) == (r \in applied \/ req[r].op = "find") /\ Tell(r, "success")

Refuse(r) == r \notin applied /\ Tell(r, "refused")

Fail(r) == Tell(r, "unknown")

Next == \E r \in Requests : Apply(r) \/ Accept(r) \/ Refuse(r) \/ Fail(r)

Spec == Init /\ [][Next]_vars
=============================================================================
