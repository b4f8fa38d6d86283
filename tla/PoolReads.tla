------------------------------ MODULE PoolReads ------------------------------
(***************************************************************************)
(* What an api process reads through its connection pool: clients that     *)
(* walk GET /products page by page while products are created, moved and   *)
(* deleted, and the storage check of GET /health/ready.  A listing is two  *)
(* statements on two connections (Promise.all); a check is one, raced with *)
(* a timeout that does not cancel it; the database fails and hangs.        *)
(***************************************************************************)
EXTENDS Integers, Sequences, FiniteSets

CONSTANTS
    Products,   \* product_codes
    Locations,  \* pick_locations, as the numbers they sort by
    Readers,    \* clients that walk the whole list
    Probe,      \* the orchestrator that probes readiness
    Limit,      \* the page size they ask for
    PoolSize,   \* pg.Pool's max
    NoRow,      \* the product is not in the table
    Pending,    \* a statement that has not answered
    Nobody,     \* the owner of a statement whose request was answered without it
    MaxEdits,   \* bound on edits of the table
    MaxFaults,  \* bound on failed statements and on hangs of the database
    MaxChecks   \* bound on the checks in the pool at a time

ASSUME PoolAssumption ==
    /\ IsFiniteSet(Products)
    /\ Pending \notin Nat /\ \A S \in SUBSET Products : Pending # S
    /\ Locations \subseteq Nat /\ NoRow \notin Locations
    /\ Probe \notin Readers /\ Nobody \notin Readers \cup {Probe}
    /\ Limit \in Nat \ {0} /\ PoolSize \in Nat \ {0}
    /\ {MaxEdits, MaxFaults, MaxChecks} \subseteq Nat

Owners == Readers \cup {Probe}

Orphan == [of |-> Nobody, kind |-> "none"]

Statement ==
    [of : Readers, kind : {"page", "count"}] \cup [of : {Probe}, kind : {"select 1"}]
      \cup {Orphan}

VARIABLES
    table,      \* table[p]: the pick_location of p, or NoRow
    hung,       \* the database answers nothing
    pool,       \* the statements in the pool: the first PoolSize have a
                \* connection and run, the others queue for one
    phase,      \* phase[o]: what the client o waits for
    offset,     \* offset[c]: the offset of reader c's next page
    page,       \* page[c]: the rows of its request in progress, once read
    total,      \* total[c]: and the count
    seen,       \* seen[c]: the products on the pages it was sent
    again,      \* again[c]: those it was sent twice
    stable,     \* history: the products that had their pick_location to
                \* themselves and did not change since c's walk began
    since,      \* history: the edits made when it began
    edits, faults

walks == <<offset, page, total, seen, again, stable, since>>
vars == <<table, hung, pool, phase, walks, edits, faults>>

Rows == {p \in Products : table[p] # NoRow}

(* The products that share their pick_location with no other in t.         *)
Alone(t) == {p \in Products : t[p] # NoRow /\ \A q \in Products \ {p} : t[q] # t[p]}

Init ==
    /\ table \in [Products -> Locations \cup {NoRow}]
    /\ hung = FALSE
    /\ pool = <<>>
    /\ phase = [o \in Owners |-> "new"]
    /\ offset = [c \in Readers |-> 0]
    /\ page = [c \in Readers |-> Pending] /\ total = [c \in Readers |-> Pending]
    /\ seen = [c \in Readers |-> {}] /\ again = [c \in Readers |-> {}]
    /\ stable = [c \in Readers |-> {}]
    /\ since = [c \in Readers |-> 0]
    /\ edits = 0 /\ faults = 0

Fault == faults < MaxFaults /\ faults' = faults + 1

Smaller(m, n) == IF m <= n THEN m ELSE n

-----------------------------------------------------------------------------
(* The table and the database.                                             *)

(* POST, PUT or DELETE of one product, by any process.                     *)
Edit(p, l) ==
    /\ edits < MaxEdits
    /\ l # table[p]
    /\ table' = [table EXCEPT ![p] = l]
    /\ stable' = [c \in Readers |-> (stable[c] \ {p}) \cap Alone(table')]
    /\ edits' = edits + 1
    /\ UNCHANGED <<hung, pool, phase, offset, page, total, seen, again,
                   since, faults>>

Hangs ==
    /\ Fault
    /\ ~hung /\ hung' = TRUE
    /\ UNCHANGED <<table, pool, phase, walks, edits>>

Recovers ==
    /\ hung /\ hung' = FALSE
    /\ UNCHANGED <<table, pool, phase, walks, edits, faults>>

-----------------------------------------------------------------------------
(* Requests.                                                               *)

Requests(o, kinds) ==
    /\ pool' = pool \o [i \in DOMAIN kinds |-> [of |-> o, kind |-> kinds[i]]]
    /\ phase' = [phase EXCEPT ![o] = "waiting"]
    /\ UNCHANGED <<table, hung, edits, faults>>

(* Mutant: a late result is taken for an answer to the next request.       *)
StillWanted(P, o) == P

(* The statements P when nobody waits for those of o any more: they stay.  *)
Abandoned(P, o) ==
    [i \in DOMAIN P |-> IF P[i].of = o THEN Orphan ELSE P[i]]

(* findAll submits the page and the count; a 500 is answered by trying the *)
(* same page again.                                                        *)
List(c) ==
    /\ phase[c] \in {"new", "next", "error"}
    /\ Requests(c, <<"page", "count">>)
    /\ since' = [since EXCEPT ![c] = IF phase[c] = "new" THEN edits ELSE @]
    /\ stable' = [stable EXCEPT ![c] = IF phase[c] = "new" THEN Alone(table) ELSE @]
    /\ UNCHANGED <<offset, page, total, seen, again>>

Check ==
    /\ phase[Probe] # "waiting"
    /\ Cardinality({i \in DOMAIN pool : pool[i].of \notin Readers}) < MaxChecks
    /\ Requests(Probe, <<"select 1">>)
    /\ UNCHANGED walks

(* Mutant: the check awaits the query alone.                               *)
CheckNeverTimesOut == FALSE /\ UNCHANGED vars

(* The timer of withTimeout fires; the statement stays in the pool.        *)
CheckTimesOut ==
    /\ phase[Probe] = "waiting"
    /\ phase' = [phase EXCEPT ![Probe] = "error"]
    /\ pool' = Abandoned(pool, Probe)
    /\ UNCHANGED <<table, hung, walks, edits, faults>>

-----------------------------------------------------------------------------
(* Statements.                                                             *)

Without(P, i) == [j \in 1..(Len(P) - 1) |-> P[IF j < i THEN j ELSE j + 1]]

Running == 1..Smaller(PoolSize, Len(pool))

Runs(i) ==
    /\ i \in Running /\ ~hung
    /\ pool' = Without(pool, i)
    /\ UNCHANGED <<table, hung, stable, since, edits, faults>>

(* Mutant: the page is read without ORDER BY.                              *)
AnyPages(n) ==
    {S \in SUBSET Rows :
       Cardinality(S) = Smaller(Limit, Cardinality(Rows) - Smaller(n, Cardinality(Rows)))}

(* ORDER BY pick_location LIMIT Limit OFFSET n: the rows before the page,  *)
(* the page, and the rows after it are sorted; ties fall either way.       *)
Pages(n) ==
    {S \in SUBSET Rows : \E A \in SUBSET (Rows \ S) :
       /\ Cardinality(A) = Smaller(n, Cardinality(Rows))
       /\ Cardinality(S) = Smaller(Limit, Cardinality(Rows \ A))
       /\ \A a \in A, s \in S : table[a] <= table[s]
       /\ \A b \in Rows \ (A \cup S), e \in A \cup S : table[e] <= table[b]}

(* Mutant: hasMore is computed from the next page's end.                   *)
StopsEarly(c, n) == offset[c] + 2 * Limit < n

HasMore(c, n) == offset[c] + Limit < n

(* Both results are there: the page S is sent, with hasMore from count n.  *)
Answers(c, S, n) ==
    /\ seen' = [seen EXCEPT ![c] = @ \cup S]
    /\ again' = [again EXCEPT ![c] = @ \cup (S \cap seen[c])]
    /\ offset' = [offset EXCEPT ![c] = @ + Limit]
    /\ phase' = [phase EXCEPT ![c] = IF HasMore(c, n) THEN "next" ELSE "done"]
    /\ page' = [page EXCEPT ![c] = Pending]
    /\ total' = [total EXCEPT ![c] = Pending]

ReadsPage(i) ==
    LET c == pool[i].of IN
    /\ Runs(i)
    /\ pool[i].kind = "page"
    /\ \E S \in Pages(offset[c]) :
         IF total[c] # Pending
           THEN Answers(c, S, total[c])
           ELSE /\ page' = [page EXCEPT ![c] = S]
                /\ UNCHANGED <<total, seen, again, offset, phase>>

Counts(i) ==
    LET c == pool[i].of n == Cardinality(Rows) IN
    /\ Runs(i)
    /\ pool[i].kind = "count"
    /\ IF page[c] # Pending
         THEN Answers(c, page[c], n)
         ELSE /\ total' = [total EXCEPT ![c] = n]
              /\ UNCHANGED <<page, seen, again, offset, phase>>

Checks(i) ==
    /\ Runs(i)
    /\ pool[i].of = Probe
    /\ phase' = [phase EXCEPT ![Probe] = "ok"]
    /\ UNCHANGED <<offset, page, total, seen, again>>

RunsForNobody(i) ==
    /\ Runs(i)
    /\ pool[i].of = Nobody
    /\ UNCHANGED <<phase, offset, page, total, seen, again>>

(* Mutant: the failure is logged and never reaches the caller.             *)
FailsUnheard(i) ==
    /\ Fault
    /\ i \in Running
    /\ pool' = Without(pool, i)
    /\ UNCHANGED <<table, hung, phase, walks, edits>>

(* A statement fails, by itself or with its connection: the first failure  *)
(* of a listing answers 500, while the other statement runs on.            *)
Fails(i) ==
    LET o == pool[i].of IN
    /\ Fault
    /\ i \in Running
    /\ pool' = Without(Abandoned(pool, o), i)
    /\ phase' = IF o = Nobody THEN phase ELSE [phase EXCEPT ![o] = "error"]
    /\ page' = [c \in Readers |-> IF c = o THEN Pending ELSE page[c]]
    /\ total' = [c \in Readers |-> IF c = o THEN Pending ELSE total[c]]
    /\ UNCHANGED <<table, hung, offset, seen, again, stable, since, edits>>

Step(i) == ReadsPage(i) \/ Counts(i) \/ Checks(i) \/ RunsForNobody(i)

Next ==
    \/ \E p \in Products, l \in Locations \cup {NoRow} : Edit(p, l)
    \/ Hangs \/ Recovers
    \/ \E c \in Readers : List(c)
    \/ Check \/ CheckTimesOut
    \/ \E i \in Running : Step(i) \/ Fails(i)

Spec == Init /\ [][Next]_vars

(* Readers go on, timers fire, and the database works through the oldest   *)
(* statement while it does not hang.  Nothing ends a hang.                 *)
Fairness ==
    /\ \A c \in Readers : WF_vars(List(c))
    /\ WF_vars(CheckTimesOut)
    /\ \A i \in 1..PoolSize : WF_vars(i \in Running /\ Step(i))

FairSpec == Spec /\ Fairness

-----------------------------------------------------------------------------
Places(c, kind) == {i \in DOMAIN pool : pool[i] = [of |-> c, kind |-> kind]}

Result(c, kind) == IF kind = "page" THEN page[c] ELSE total[c]

(* A statement is in the pool exactly as long as a listing waits for it.   *)
TypeOK ==
    /\ table \in [Products -> Locations \cup {NoRow}]
    /\ hung \in BOOLEAN
    /\ pool \in Seq(Statement)
    /\ phase \in [Owners -> {"new", "waiting", "next", "error", "done", "ok"}]
    /\ \A c \in Readers, kind \in {"page", "count"} :
         IF phase[c] = "waiting" /\ Result(c, kind) = Pending
           THEN \E i \in DOMAIN pool : Places(c, kind) = {i}
           ELSE Places(c, kind) = {}
    /\ offset \in [Readers -> Nat]
    /\ page \in [Readers -> {Pending} \cup SUBSET Products]
    /\ total \in [Readers -> {Pending} \cup Nat]
    /\ seen \in [Readers -> SUBSET Products] /\ again \in [Readers -> SUBSET Products]
    /\ stable \in [Readers -> SUBSET Products]
    /\ edits \in 0..MaxEdits /\ faults \in 0..MaxFaults
    /\ since \in [Readers -> 0..edits]

(* A finished walk missed no more of the products that stayed where they   *)
(* were, each alone in its pick_location, than edits were made meanwhile:  *)
(* none without edits, though the page and the count of every request are  *)
(* read from two snapshots and any request may have been tried again.      *)
MissesNeedEdits ==
    \A c \in Readers : phase[c] = "done" =>
      Cardinality(stable[c] \ seen[c]) <= edits - since[c]

(* And was sent no more of them twice.                                     *)
RepeatsNeedEdits ==
    \A c \in Readers : Cardinality(stable[c] \cap again[c]) <= edits - since[c]

(* GET /health/ready answers even while the database hangs or every        *)
(* connection of the pool is taken.                                        *)
CheckAnswered == phase[Probe] = "waiting" ~> phase[Probe] # "waiting"

(* If the database does not hang for ever, every walk ends, however many   *)
(* abandoned statements of checks and of failed listings are in the pool.  *)
WalksEnd == []<>~hung => \A c \in Readers : <>(phase[c] = "done")
=============================================================================
