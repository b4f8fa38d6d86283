---------------------------- MODULE PickContract ----------------------------
(***************************************************************************)
(* What the service promises of a pick it has accepted, whatever workers,  *)
(* queues and retries it is made of.  A pick takes exactly its quantity,   *)
(* from a stock that covers it; it is reported completed no more often     *)
(* than it took, failed only if the stock was found short, and given up    *)
(* only if it is no pick or more went wrong than its retries make up for.  *)
(* It has one effect, and one more for every mishap at most.               *)
(***************************************************************************)
EXTENDS Integers

CONSTANTS Products, Picks, Order, Malformed, MaxRetries, Int4Max

Missing == -1                       \* the product does not exist

VARIABLES
    stock,      \* stock[p]: Missing, or the quantity of p
    asked,      \* the picks accepted
    short,      \* the picks somebody has just found the stock too short for
    taken,      \* taken[k]: how often k took its quantity
    completed,  \* completed[k]: how often k was reported completed ...
    failed,     \* ... and failed
    abandoned,  \* the picks given up
    mishaps     \* how much went wrong

reports == <<completed, failed>>
vars == <<stock, asked, short, taken, reports, abandoned, mishaps>>

Init ==
    /\ stock \in [Products -> {Missing} \cup 0..Int4Max]
    /\ asked = {} /\ short = {} /\ abandoned = {}
    /\ taken = [k \in Picks |-> 0]
    /\ completed = taken /\ failed = taken
    /\ mishaps = 0

Needs(k) == Order[k].quantity
Left(k) == stock[Order[k].product]

MayAct(k) == k \in asked \ Malformed /\ taken[k] + failed[k] <= mishaps'

Ask(k) ==
    /\ k \notin asked
    /\ asked' = asked \cup {k}
    /\ UNCHANGED <<stock, short, taken, reports, abandoned, mishaps>>

(* The API sets, adds, removes or creates stock.                           *)
Edit(p) ==
    /\ UNCHANGED <<mishaps, taken, reports, asked, abandoned, short>>
    /\ \E s \in {Missing} \cup 0..Int4Max : stock' = [stock EXCEPT ![p] = s]

(* It may go wrong in the same step: who took the stock is not told so.    *)
TakeStock(k) ==
    /\ MayAct(k)
    /\ Left(k) >= Needs(k)
    /\ stock' = [stock EXCEPT ![Order[k].product] = @ - Needs(k)]
    /\ taken' = [taken EXCEPT ![k] = @ + 1]
    /\ mishaps' \in {mishaps, mishaps + 1}
    /\ UNCHANGED <<asked, short, reports, abandoned>>

FindShort(k) ==
    /\ k \in asked
    /\ Left(k) < Needs(k)
    /\ short' = short \cup {k}
    /\ UNCHANGED <<stock, asked, taken, reports, abandoned, mishaps>>

Complete(k) ==
    /\ completed[k] < taken[k]
    /\ completed' = [completed EXCEPT ![k] = @ + 1]
    /\ UNCHANGED <<stock, asked, short, taken, failed, abandoned, mishaps>>

Fail(k) ==
    /\ MayAct(k)
    /\ k \in short /\ short' \in {short, short \ {k}}
    /\ failed' = [failed EXCEPT ![k] = @ + 1]
    /\ UNCHANGED <<stock, asked, taken, completed, abandoned, mishaps>>

GiveUp(k) ==
    /\ k \in asked
    /\ k \in Malformed \/ mishaps > MaxRetries
    /\ abandoned' = abandoned \cup {k}
    /\ UNCHANGED <<stock, asked, short, taken, reports, mishaps>>

(* What was found must be found again when it was not reported at once.    *)
Forget(k) ==
    /\ k \in short
    /\ short' = short \ {k}
    /\ UNCHANGED <<stock, asked, taken, reports, abandoned, mishaps>>

Mishap ==
    /\ mishaps' = mishaps + 1
    /\ short' = short \/ \E k \in short : short' = short \ {k}
    /\ UNCHANGED <<stock, asked, taken, reports, abandoned>>

Next ==
    \/ \E p \in Products : Edit(p)
    \/ \E k \in Picks : \/ Ask(k) \/ TakeStock(k) \/ FindShort(k)
                        \/ Complete(k) \/ Fail(k) \/ GiveUp(k) \/ Forget(k)
    \/ Mishap

Spec == Init /\ [][Next]_vars
=============================================================================
