-------------------------- MODULE PoolReadsProofs --------------------------
(***************************************************************************)
(* Theorems about PoolReads, for any products, locations, readers, page    *)
(* size, pool size and bounds: a walk through the pages of GET /products   *)
(* misses and repeats no more of the products that stayed where they were  *)
(* than edits were made meanwhile.                                         *)
(***************************************************************************)
EXTENDS PoolReads, FiniteSetTheorems, SequenceTheorems, TLAPS

(* TypeOK in two parts: where the statements of the pool are, once or      *)
(* never, and the rest.                                                    *)
Spots(P, s) == {i \in DOMAIN P : P[i] = s}

Once(P, s) == \E i \in DOMAIN P : Spots(P, s) = {i}

Never(P, s) == Spots(P, s) = {}

Asks(c, kind) == [of |-> c, kind |-> kind]

Served(c) ==
    \A kind \in {"page", "count"} :
      IF phase[c] = "waiting" /\ Result(c, kind) = Pending
        THEN Once(pool, Asks(c, kind))
        ELSE Never(pool, Asks(c, kind))

ServedInv == \A c \in Readers : Served(c)

Types ==
    /\ table \in [Products -> Locations \cup {NoRow}]
    /\ hung \in BOOLEAN
    /\ pool \in Seq(Statement)
    /\ phase \in [Owners -> {"new", "waiting", "next", "error", "done", "ok"}]
    /\ offset \in [Readers -> Nat]
    /\ page \in [Readers -> {Pending} \cup SUBSET Products]
    /\ total \in [Readers -> {Pending} \cup Nat]
    /\ seen \in [Readers -> SUBSET Products] /\ again \in [Readers -> SUBSET Products]
    /\ stable \in [Readers -> SUBSET Products]
    /\ edits \in 0..MaxEdits /\ faults \in 0..MaxFaults
    /\ since \in [Readers -> 0..edits]

(* How many rows come before p in the order of findAll: the page from      *)
(* offset n shows p if n <= Rank(p) < n + Limit.                           *)
Before(p) == {q \in Rows : table[q] < table[p]}

Rank(p) == Cardinality(Before(p))

(* What reader c waits for is still to come, and before its walk begins    *)
(* nothing is remembered of it.                                            *)
Place(c) ==
    /\ stable[c] \subseteq Alone(table)
    /\ phase[c] # "waiting" => page[c] = Pending /\ total[c] = Pending
    /\ page[c] = Pending \/ total[c] = Pending
    /\ phase[c] = "new" => offset[c] = 0 /\ seen[c] = {} /\ again[c] = {}

(* Where the walk stands once the request in progress is answered.         *)
Onward(c) == IF page[c] = Pending THEN offset[c] ELSE offset[c] + Limit
Had(c) == IF page[c] = Pending THEN seen[c] ELSE seen[c] \cup page[c]
HadAgain(c) ==
    IF page[c] = Pending THEN again[c] ELSE again[c] \cup (seen[c] \cap page[c])

(* The stable products of M, and those of K that are not between two       *)
(* places of the list (the second may be Pending: the list's end).         *)
Outside(p, low, high) == Rank(p) < low \/ (high # Pending /\ Rank(p) >= high)

Counted(c, M, K, low, high) ==
    {p \in stable[c] : p \in M \/ (p \in K /\ Outside(p, low, high))}

(* Those the walk will miss, unseen behind its offset or beyond the count  *)
(* it was given; those it repeated or will, seen and ahead of its offset.  *)
(* The request in progress may still fail, so that what it has read counts *)
(* for neither; or be answered, so that it does.                           *)
Missed(c) == Counted(c, {}, Products \ seen[c], offset[c], total[c])
MissedNext(c) == Counted(c, {}, Products \ Had(c), Onward(c), Pending)
Twice(c) == Counted(c, again[c], seen[c], 0, offset[c])
TwiceNext(c) == Counted(c, HadAgain(c), Had(c), 0, Onward(c))

Paid(c, S) == Cardinality(S) <= edits - since[c]

Walk(c) ==
    /\ Paid(c, Twice(c)) /\ Paid(c, TwiceNext(c))
    /\ IF phase[c] = "done" THEN Paid(c, stable[c] \ seen[c])
                            ELSE Paid(c, Missed(c)) /\ Paid(c, MissedNext(c))

PlaceInv == \A c \in Readers : Place(c)

WalkInv == \A c \in Readers : Walk(c)

Inv == Types /\ ServedInv /\ PlaceInv /\ WalkInv

LEMMA TypeParts == TypeOK <=> Types /\ ServedInv
  BY DEF TypeOK, Types, ServedInv, Served, Once, Never, Spots, Places, Asks

-----------------------------------------------------------------------------
(* Ranks.                                                                  *)
LEMMA RankTyped ==
    ASSUME NEW p \in Products
    PROVE  IsFiniteSet(Before(p)) /\ Rank(p) \in Nat
<1>1. Before(p) \in SUBSET Products
  BY DEF Before, Rows
<1>2. IsFiniteSet(Before(p))
  BY <1>1, FS_Subset, PoolAssumption
<1>3. QED
  BY <1>2, FS_CardinalityType DEF Rank

LEMMA RowsTyped ==
    ASSUME TypeOK
    PROVE  /\ IsFiniteSet(Rows) /\ Cardinality(Rows) \in Nat
           /\ \A p \in Rows : p \in Products /\ table[p] \in Nat /\ table[p] # NoRow
<1>1. Rows \in SUBSET Products
  BY DEF Rows
<1>2. IsFiniteSet(Rows)
  BY <1>1, FS_Subset, PoolAssumption
<1>3. QED
  BY <1>1, <1>2, FS_CardinalityType, PoolAssumption DEF TypeOK, Rows

(* The order of ranks is the order of locations.                           *)
LEMMA RanksGrow ==
    ASSUME TypeOK, NEW p \in Rows, NEW q \in Rows, table[p] < table[q]
    PROVE  Rank(p) < Rank(q)
<1>1. /\ p \in Products /\ q \in Products /\ table[p] \in Nat /\ table[q] \in Nat
      /\ \A x \in Rows : table[x] \in Nat
  BY RowsTyped
<1>2. Before(p) \cup {p} \in SUBSET Before(q)
  BY <1>1 DEF Before
<1>3. p \notin Before(p)
  BY <1>1 DEF Before
<1>4. /\ IsFiniteSet(Before(p)) /\ IsFiniteSet(Before(q))
      /\ Rank(p) \in Nat /\ Rank(q) \in Nat
  BY <1>1, RankTyped
<1>5. Cardinality(Before(p) \cup {p}) = Rank(p) + 1
  BY <1>3, <1>4, FS_AddElement DEF Rank
<1>6. Cardinality(Before(p) \cup {p}) <= Rank(q)
  BY <1>2, <1>4, FS_Subset DEF Rank
<1>7. QED
  BY <1>4, <1>5, <1>6

LEMMA RanksDiffer ==
    ASSUME TypeOK, NEW p \in Alone(table), NEW q \in Alone(table), p # q
    PROVE  Rank(p) # Rank(q)
<1>1. p \in Rows /\ q \in Rows /\ table[p] # table[q]
  BY DEF Alone, Rows
<1>2. /\ p \in Products /\ q \in Products
      /\ table[p] \in Nat /\ table[q] \in Nat
  BY <1>1, RowsTyped
<1>3. Rank(p) \in Nat /\ Rank(q) \in Nat
  BY <1>2, RankTyped
<1>4. table[p] < table[q] \/ table[q] < table[p]
  BY <1>1, <1>2
<1>5. Rank(p) < Rank(q) \/ Rank(q) < Rank(p)
  BY <1>1, <1>4, RanksGrow
<1>6. QED
  BY <1>3, <1>5

(* No rank reaches the count of the rows.                                  *)
LEMMA RankBelowCount ==
    ASSUME TypeOK, NEW p \in Rows
    PROVE  Rank(p) < Cardinality(Rows)
<1>1. /\ p \in Products /\ table[p] \in Nat
      /\ IsFiniteSet(Rows) /\ Cardinality(Rows) \in Nat
  BY RowsTyped
<1>2. Before(p) \cup {p} \in SUBSET Rows /\ p \notin Before(p)
  BY <1>1 DEF Before
<1>3. IsFiniteSet(Before(p)) /\ Rank(p) \in Nat
  BY <1>1, RankTyped
<1>4. Cardinality(Before(p) \cup {p}) = Rank(p) + 1
  BY <1>2, <1>3, FS_AddElement DEF Rank
<1>5. Cardinality(Before(p) \cup {p}) <= Cardinality(Rows)
  BY <1>1, <1>2, FS_Subset
<1>6. QED
  BY <1>1, <1>3, <1>4, <1>5

(* ORDER BY, LIMIT and OFFSET: a page shows what is alone in its location  *)
(* if and only if its rank is on it, however the ties fall.                *)
LEMMA PageShows ==
    ASSUME TypeOK, NEW n \in Nat, NEW S \in Pages(n), NEW p \in Alone(table)
    PROVE  /\ S \in SUBSET Products
           /\ p \in S <=> n <= Rank(p) /\ Rank(p) < n + Limit
<1>1. PICK A \in SUBSET (Rows \ S) :
        /\ S \in SUBSET Rows
        /\ Cardinality(A) = Smaller(n, Cardinality(Rows))
        /\ Cardinality(S) = Smaller(Limit, Cardinality(Rows \ A))
        /\ \A a \in A, s \in S : table[a] <= table[s]
        /\ \A b \in Rows \ (A \cup S), e \in A \cup S : table[e] <= table[b]
  BY DEF Pages
<1>2. /\ IsFiniteSet(Rows) /\ Cardinality(Rows) \in Nat
      /\ \A x \in Rows : x \in Products /\ table[x] \in Nat
  BY RowsTyped
<1>3. p \in Rows /\ \A x \in Rows \ {p} : table[x] # table[p]
  BY <1>2 DEF Alone, Rows
<1>4. IsFiniteSet(Before(p)) /\ Rank(p) \in Nat
  BY <1>2, <1>3, RankTyped
<1>5. Limit \in Nat \ {0}
  BY PoolAssumption
<1>6. /\ IsFiniteSet(A) /\ IsFiniteSet(S) /\ IsFiniteSet(A \cup S)
      /\ IsFiniteSet(Rows \ A)
      /\ Cardinality(A) \in Nat /\ Cardinality(S) \in Nat
      /\ Cardinality(Rows \ A) \in Nat
      /\ Cardinality(A \cup S) = Cardinality(A) + Cardinality(S)
  <2>1. A \in SUBSET Rows /\ S \in SUBSET Rows /\ A \cup S \in SUBSET Rows
        /\ Rows \ A \in SUBSET Rows /\ A \cap S = {}
    BY <1>1
  <2>2. /\ IsFiniteSet(A) /\ IsFiniteSet(S) /\ IsFiniteSet(A \cup S)
        /\ IsFiniteSet(Rows \ A)
    BY <1>2, <2>1, FS_Subset
  <2>3. /\ Cardinality(A) \in Nat /\ Cardinality(S) \in Nat
        /\ Cardinality(Rows \ A) \in Nat
    BY <2>2, FS_CardinalityType
  <2>4. Cardinality(A \cup S) = Cardinality(A) + Cardinality(S) - Cardinality(A \cap S)
    BY <2>2, FS_Union
  <2>5. Cardinality(A \cap S) = 0
    BY <2>1, FS_EmptySet
  <2>6. QED
    BY <2>2, <2>3, <2>4, <2>5
<1>7. CASE p \in A
  <2>1. Before(p) \cup {p} \in SUBSET A /\ p \notin Before(p)
    <3>1. ASSUME NEW x \in Before(p) PROVE x \in A
      <4>1. x \in Rows /\ table[x] < table[p] /\ table[x] \in Nat /\ table[p] \in Nat
        BY <1>2, <1>3 DEF Before
      <4>2. x \in S => table[p] <= table[x]
        BY <1>1, <1>7
      <4>3. x \notin A \cup S => table[p] <= table[x]
        BY <1>1, <1>7, <4>1
      <4>4. QED
        BY <4>1, <4>2, <4>3
    <3>2. QED
      BY <1>2, <1>3, <1>7, <3>1 DEF Before
  <2>2. Cardinality(Before(p) \cup {p}) = Rank(p) + 1
    BY <1>4, <2>1, FS_AddElement DEF Rank
  <2>3. Cardinality(Before(p) \cup {p}) <= Cardinality(A)
    BY <1>6, <2>1, FS_Subset
  <2>4. Cardinality(A) <= n
    BY <1>1, <1>2 DEF Smaller
  <2>5. p \notin S /\ S \in SUBSET Products
    BY <1>1, <1>2, <1>7
  <2>6. QED
    BY <1>4, <1>5, <1>6, <2>2, <2>3, <2>4, <2>5
<1>8. CASE p \in S
  <2>1. A \in SUBSET Before(p)
    <3>1. ASSUME NEW a \in A PROVE a \in Before(p)
      BY <1>1, <1>2, <1>3, <1>8 DEF Before
    <3>2. QED
      BY <3>1
  <2>2. Before(p) \cup {p} \in SUBSET (A \cup S) /\ p \notin Before(p)
    <3>1. ASSUME NEW x \in Before(p) PROVE x \in A \cup S
      <4>1. x \in Rows /\ table[x] < table[p] /\ table[x] \in Nat /\ table[p] \in Nat
        BY <1>2, <1>3 DEF Before
      <4>2. x \notin A \cup S => table[p] <= table[x]
        BY <1>1, <1>8, <4>1
      <4>3. QED
        BY <4>1, <4>2
    <3>2. QED
      BY <1>2, <1>3, <1>8, <3>1 DEF Before
  <2>3. Cardinality(Before(p) \cup {p}) = Rank(p) + 1
    BY <1>4, <2>2, FS_AddElement DEF Rank
  <2>4. Cardinality(Before(p) \cup {p}) <= Cardinality(A \cup S)
    BY <1>6, <2>2, FS_Subset
  <2>5. Cardinality(A) <= Rank(p)
    BY <1>4, <2>1, FS_Subset DEF Rank
  <2>6. Cardinality(A) = n
    <3>1. A \in SUBSET Rows /\ A # Rows
      BY <1>1, <1>3, <1>8
    <3>2. Cardinality(A) # Cardinality(Rows)
      BY <1>2, <3>1, FS_Subset
    <3>3. QED
      BY <1>1, <3>2 DEF Smaller
  <2>7. Cardinality(S) <= Limit
    BY <1>1, <1>5, <1>6 DEF Smaller
  <2>8. S \in SUBSET Products
    BY <1>1, <1>2
  <2>9. QED
    BY <1>4, <1>5, <1>6, <1>8, <2>3, <2>4, <2>5, <2>6, <2>7, <2>8
<1>9. CASE p \notin A \cup S
  <2>1. A \cup S \in SUBSET Before(p)
    <3>1. ASSUME NEW e \in A \cup S PROVE e \in Before(p)
      <4>1. e \in Rows /\ e # p /\ table[e] \in Nat /\ table[p] \in Nat
        BY <1>1, <1>2, <1>3, <1>9
      <4>2. table[e] <= table[p] /\ table[e] # table[p]
        BY <1>1, <1>3, <1>9, <4>1
      <4>3. QED
        BY <4>1, <4>2 DEF Before
    <3>2. QED
      BY <3>1
  <2>2. Cardinality(A \cup S) <= Rank(p)
    BY <1>4, <2>1, FS_Subset DEF Rank
  <2>3. Cardinality(A) = n
    <3>1. A \in SUBSET Rows /\ A # Rows
      BY <1>1, <1>3, <1>9
    <3>2. Cardinality(A) # Cardinality(Rows)
      BY <1>2, <3>1, FS_Subset
    <3>3. QED
      BY <1>1, <3>2 DEF Smaller
  <2>4. Cardinality(S) = Limit
    <3>1. S \in SUBSET (Rows \ A) /\ S # Rows \ A
      BY <1>1, <1>3, <1>9
    <3>2. Cardinality(S) # Cardinality(Rows \ A)
      BY <1>6, <3>1, FS_Subset
    <3>3. QED
      BY <1>1, <3>2 DEF Smaller
  <2>5. S \in SUBSET Products
    BY <1>1, <1>2
  <2>6. QED
    BY <1>4, <1>5, <1>6, <1>9, <2>2, <2>3, <2>4, <2>5
<1>10. QED
  BY <1>7, <1>8, <1>9

-----------------------------------------------------------------------------
(* Edits.  Creating, moving or deleting one product moves the others in    *)
(* one direction only, and by one place at most.                           *)
LEMMA EditEffect ==
    ASSUME TypeOK, NEW p \in Products, NEW l \in Locations \cup {NoRow}, Edit(p, l),
           NEW q \in Rows \ {p}
    PROVE  LET B == Before(q) \ {p} IN
           /\ IsFiniteSet(B) /\ p \notin B
           /\ Before(q) = IF table[p] # NoRow /\ table[p] < table[q] THEN B \cup {p} ELSE B
           /\ Before(q)' = IF l # NoRow /\ l < table[q] THEN B \cup {p} ELSE B
<1> DEFINE B == Before(q) \ {p}
<1>1. /\ q \in Products /\ q # p /\ IsFiniteSet(Before(q))
      /\ table \in [Products -> Locations \cup {NoRow}]
  BY RowsTyped, RankTyped DEF TypeOK
<1>2. /\ table'[p] = l /\ table'[q] = table[q]
      /\ \A x \in Products \ {p} : table'[x] = table[x]
  BY <1>1 DEF Edit
<1>3. IsFiniteSet(B) /\ p \notin B
  BY <1>1, FS_RemoveElement
<1>4. Before(q) = IF table[p] # NoRow /\ table[p] < table[q] THEN B \cup {p} ELSE B
  BY <1>1 DEF Before, Rows
<1>5. \A x \in Products \ {p} : x \in Before(q)' <=> x \in Before(q)
  BY <1>1, <1>2 DEF Before, Rows
<1>6. p \in Before(q)' <=> l # NoRow /\ l < table[q]
  BY <1>1, <1>2 DEF Before, Rows
<1>7. Before(q)' \subseteq Products /\ Before(q) \subseteq Products
  BY DEF Before, Rows
<1>8. Before(q)' = IF l # NoRow /\ l < table[q] THEN B \cup {p} ELSE B
  BY <1>5, <1>6, <1>7
<1>9. QED
  BY <1>3, <1>4, <1>8

LEMMA EditDrifts ==
    ASSUME TypeOK, NEW p \in Products, NEW l \in Locations \cup {NoRow}, Edit(p, l)
    PROVE  \E d \in {-1, 1} : \A q \in Rows \ {p} : Rank(q)' \in {Rank(q), Rank(q) + d}
<1> DEFINE was(q) == table[p] # NoRow /\ table[p] < table[q]
           is(q) == l # NoRow /\ l < table[q]
<1>1. ASSUME NEW q \in Rows \ {p}
      PROVE  /\ Rank(q) \in Nat
             /\ was(q) <=> is(q) => Rank(q)' = Rank(q)
             /\ is(q) /\ ~was(q) => Rank(q)' = Rank(q) + 1
             /\ was(q) /\ ~is(q) => Rank(q)' = Rank(q) - 1
  <2> DEFINE B == Before(q) \ {p}
  <2>1. /\ IsFiniteSet(B) /\ p \notin B
        /\ Before(q) = IF was(q) THEN B \cup {p} ELSE B
        /\ Before(q)' = IF is(q) THEN B \cup {p} ELSE B
    BY EditEffect
  <2>2. Cardinality(B) \in Nat /\ Cardinality(B \cup {p}) = Cardinality(B) + 1
    BY <2>1, FS_AddElement, FS_CardinalityType
  <2>3. /\ Rank(q) = IF was(q) THEN Cardinality(B) + 1 ELSE Cardinality(B)
        /\ Rank(q)' = IF is(q) THEN Cardinality(B) + 1 ELSE Cardinality(B)
    BY <2>1, <2>2 DEF Rank
  <2>4. QED
    <3> HIDE DEF was, is, B
    <3>1. QED
      BY <2>2, <2>3
<1>2. /\ \A q \in Rows : table[q] \in Nat
      /\ l # NoRow => l \in Nat
      /\ table[p] # NoRow => table[p] \in Nat
  BY PoolAssumption, RowsTyped DEF TypeOK
<1>3. CASE \A q \in Rows : was(q) => is(q)
  <2>1. \A q \in Rows \ {p} : Rank(q)' \in {Rank(q), Rank(q) + 1}
    <3> HIDE DEF was, is
    <3>1. QED
      BY <1>1, <1>3
  <2>2. QED
    BY <2>1
<1>4. CASE \A q \in Rows : is(q) => was(q)
  <2>1. \A q \in Rows \ {p} : Rank(q)' \in {Rank(q), Rank(q) + (-1)}
    <3> HIDE DEF was, is
    <3>1. QED
      BY <1>1, <1>4
  <2>2. QED
    BY <2>1
<1>5. QED
  BY <1>2, <1>3, <1>4

LEMMA OneMore ==
    ASSUME NEW X, IsFiniteSet(X), NEW Y, NEW Z, Y \subseteq X \cup Z,
           \A u, v \in Z : u = v
    PROVE  IsFiniteSet(Y) /\ Cardinality(Y) <= Cardinality(X) + 1
<1>1. PICK z : Y \in SUBSET (X \cup {z})
  <2>1. CASE Z = {}
    BY <2>1
  <2>2. CASE Z # {}
    <3>1. PICK z : z \in Z
      BY <2>2
    <3>2. Y \in SUBSET (X \cup {z})
      BY <3>1
    <3>3. QED
      BY <3>2
  <2>3. QED
    BY <2>1, <2>2
<1>2. IsFiniteSet(X \cup {z}) /\ Cardinality(X \cup {z}) <= Cardinality(X) + 1
  BY FS_AddElement, FS_CardinalityType
<1>3. /\ IsFiniteSet(Y) /\ Cardinality(Y) <= Cardinality(X \cup {z})
      /\ Cardinality(Y) \in Nat /\ Cardinality(X \cup {z}) \in Nat /\ Cardinality(X) \in Nat
  BY <1>1, <1>2, FS_Subset, FS_CardinalityType
<1>4. QED
  BY <1>2, <1>3

LEMMA CountedTyped ==
    ASSUME TypeOK, NEW c \in Readers, NEW M, NEW K, NEW low, NEW high
    PROVE  /\ IsFiniteSet(Counted(c, M, K, low, high))
           /\ Cardinality(Counted(c, M, K, low, high)) \in Nat
<1>1. Counted(c, M, K, low, high) \in SUBSET Products
  BY DEF TypeOK, Counted
<1>2. QED
  BY <1>1, FS_Subset, FS_CardinalityType, PoolAssumption

(* So an edit takes at most one product over either place.                 *)
LEMMA EditCounts ==
    ASSUME TypeOK, NEW p \in Products, NEW l \in Locations \cup {NoRow}, Edit(p, l),
           NEW c \in Readers, Place(c), NEW M, NEW K,
           NEW low \in Nat, NEW high \in Nat \cup {Pending}
    PROVE  Cardinality(Counted(c, M, K, low, high)')
             <= Cardinality(Counted(c, M, K, low, high)) + 1
<1> DEFINE X == Counted(c, M, K, low, high)
           Y == Counted(c, M, K, low, high)'
<1>1. PICK d \in {-1, 1} : \A q \in Rows \ {p} : Rank(q)' \in {Rank(q), Rank(q) + d}
  BY EditDrifts
<1>2. stable'[c] \subseteq stable[c] \ {p} /\ stable[c] \subseteq Alone(table)
  BY DEF Edit, Place
<1>3. Pending \notin Nat
  BY PoolAssumption
<1> DEFINE edge == IF d = 1 THEN high - 1 ELSE low
           Z == {q \in Alone(table) : Rank(q) = edge}
<1>4. \A u, v \in Z : u = v
  BY RanksDiffer
<1>5. ASSUME NEW q \in Y PROVE q \in X \cup Z
  <2>1. /\ q \in stable[c] /\ q \in stable'[c] /\ q \in Alone(table) /\ q # p
        /\ q \in M \/ (q \in K /\ (Rank(q)' < low \/ (high # Pending /\ Rank(q)' >= high)))
    BY <1>2, <1>5 DEF Counted, Outside
  <2>2. q \in Products /\ q \in Rows \ {p}
    BY <2>1 DEF Alone, Rows
  <2>3. Rank(q) \in Nat /\ Rank(q)' \in {Rank(q), Rank(q) + d}
    BY <1>1, <2>2, RankTyped
  <2>4. CASE q \in M \/ (q \in K /\ Outside(q, low, high))
    BY <2>1, <2>4 DEF Counted
  <2>5. CASE /\ q \notin M /\ q \in K
             /\ ~(Rank(q) < low \/ (high # Pending /\ Rank(q) >= high))
    <3>1. Rank(q) = edge
      BY <1>3, <2>1, <2>3, <2>5
    <3>2. QED
      BY <2>1, <3>1
  <2>6. QED
    BY <2>1, <2>4, <2>5 DEF Outside
<1>6. IsFiniteSet(X)
  BY CountedTyped
<1>7. QED
  <2> HIDE DEF X, Y, Z
  <2>1. Cardinality(Y) <= Cardinality(X) + 1
    BY <1>4, <1>5, <1>6, OneMore
  <2>2. QED
    BY <2>1 DEF X, Y

(* What an edit costs a walk it pays itself.                               *)
LEMMA EditWalk ==
    ASSUME TypeOK, NEW p \in Products, NEW l \in Locations \cup {NoRow}, Edit(p, l),
           NEW c \in Readers, Place(c), Walk(c)
    PROVE  Walk(c)'
<1>1. /\ edits' = edits + 1 /\ since' = since /\ phase' = phase /\ offset' = offset
      /\ page' = page /\ total' = total /\ seen' = seen /\ again' = again
      /\ stable'[c] \subseteq stable[c]
      /\ edits \in Nat /\ since[c] \in Nat
  BY PoolAssumption DEF Edit, TypeOK
<1>2. /\ offset[c] \in Nat /\ Onward(c) \in Nat /\ 0 \in Nat
      /\ total[c] \in Nat \cup {Pending}
  BY PoolAssumption DEF TypeOK, Onward
<1>3. ASSUME NEW M, NEW K, NEW low \in Nat, NEW high \in Nat \cup {Pending},
             Cardinality(Counted(c, M, K, low, high)) <= edits - since[c]
      PROVE  Cardinality(Counted(c, M, K, low, high)') <= edits' - since'[c]
  <2> DEFINE m == Cardinality(Counted(c, M, K, low, high))
             n == Cardinality(Counted(c, M, K, low, high)')
  <2>1. m \in Nat /\ n <= m + 1
    BY CountedTyped, EditCounts
  <2>2. n \in Nat
    <3>1. Counted(c, M, K, low, high)' \in SUBSET Products
      BY <1>1 DEF Counted, TypeOK
    <3>2. QED
      BY <3>1, FS_Subset, FS_CardinalityType, PoolAssumption
  <2>3. QED
    <3> HIDE DEF m, n
    <3>1. m <= edits - since[c]
      BY <1>3 DEF m
    <3>2. n <= edits' - since'[c]
      BY <1>1, <2>1, <2>2, <3>1
    <3>3. QED
      BY <3>2 DEF n
<1>4. Paid(c, Missed(c)) => Paid(c, Missed(c))'
  <2>1. PICK K, low, high : K = Products \ seen[c] /\ low = offset[c] /\ high = total[c]
    OBVIOUS
  <2>2. Missed(c) = Counted(c, {}, K, low, high)
    BY <2>1 DEF Missed
  <2>3. Missed(c)' = Counted(c, {}, K, low, high)'
    BY <1>1, <2>1 DEF Missed, Counted, Outside
  <2>4. QED
    BY <1>2, <1>3, <2>1, <2>2, <2>3 DEF Paid
<1>5. Paid(c, MissedNext(c)) => Paid(c, MissedNext(c))'
  <2>1. PICK K, low : K = Products \ Had(c) /\ low = Onward(c)
    OBVIOUS
  <2>2. MissedNext(c) = Counted(c, {}, K, low, Pending)
    BY <2>1 DEF MissedNext
  <2>3. MissedNext(c)' = Counted(c, {}, K, low, Pending)'
    BY <1>1, <2>1 DEF MissedNext, Had, Onward, Counted, Outside
  <2>4. QED
    BY <1>2, <1>3, <2>1, <2>2, <2>3 DEF Paid
<1>6. Paid(c, Twice(c)) => Paid(c, Twice(c))'
  <2>1. PICK M, K, high : M = again[c] /\ K = seen[c] /\ high = offset[c]
    OBVIOUS
  <2>2. Twice(c) = Counted(c, M, K, 0, high)
    BY <2>1 DEF Twice
  <2>3. Twice(c)' = Counted(c, M, K, 0, high)'
    BY <1>1, <2>1 DEF Twice, Counted, Outside
  <2>4. QED
    BY <1>2, <1>3, <2>1, <2>2, <2>3 DEF Paid
<1>7. Paid(c, TwiceNext(c)) => Paid(c, TwiceNext(c))'
  <2>1. PICK M, K, high : M = HadAgain(c) /\ K = Had(c) /\ high = Onward(c)
    OBVIOUS
  <2>2. TwiceNext(c) = Counted(c, M, K, 0, high)
    BY <2>1 DEF TwiceNext
  <2>3. TwiceNext(c)' = Counted(c, M, K, 0, high)'
    BY <1>1, <2>1 DEF TwiceNext, HadAgain, Had, Onward, Counted, Outside
  <2>4. QED
    BY <1>2, <1>3, <2>1, <2>2, <2>3 DEF Paid
<1>8. Paid(c, stable[c] \ seen[c]) => Paid(c, stable[c] \ seen[c])'
  <2> DEFINE X == stable[c] \ seen[c]
             Y == stable'[c] \ seen'[c]
  <2>1. X \in SUBSET Products /\ Y \in SUBSET X
    BY <1>1 DEF TypeOK
  <2>2. IsFiniteSet(X)
    BY <2>1, FS_Subset, PoolAssumption
  <2>3. /\ Cardinality(X) \in Nat /\ Cardinality(Y) \in Nat
        /\ Cardinality(Y) <= Cardinality(X)
    <3> HIDE DEF X, Y
    <3>1. QED
      BY <2>1, <2>2, FS_Subset, FS_CardinalityType
  <2>4. QED
    BY <1>1, <2>3 DEF Paid
<1>9. QED
  BY <1>1, <1>4, <1>5, <1>6, <1>7, <1>8 DEF Walk

-----------------------------------------------------------------------------
(* The other steps leave the list as it is.                                *)
LEMMA RanksStay ==
    ASSUME table' = table
    PROVE  \A p \in Products : Rank(p)' = Rank(p)
  BY DEF Rank, Before, Rows

LEMMA PaidLess ==
    ASSUME NEW S \in SUBSET Products, NEW T \in SUBSET S, NEW n \in Int, Cardinality(S) <= n
    PROVE  Cardinality(T) <= n
<1>1. IsFiniteSet(S)
  BY FS_Subset, PoolAssumption
<1>2. /\ IsFiniteSet(T) /\ Cardinality(T) <= Cardinality(S)
      /\ Cardinality(S) \in Nat /\ Cardinality(T) \in Nat
  BY <1>1, FS_Subset, FS_CardinalityType
<1>3. QED
  BY <1>2

(* So what a walk may lose then is part of what it might lose before.      *)
Keeps(c) ==
    /\ table' = table /\ edits' = edits /\ stable'[c] = stable[c] /\ since'[c] = since[c]

LEMMA WalkKeeps ==
    ASSUME TypeOK, NEW c \in Readers, Walk(c), Keeps(c), phase[c] # "done",
           \/ Twice(c)' \subseteq Twice(c) \/ Twice(c)' \subseteq TwiceNext(c),
           \/ TwiceNext(c)' \subseteq Twice(c) \/ TwiceNext(c)' \subseteq TwiceNext(c),
           IF phase'[c] = "done"
             THEN \/ stable'[c] \ seen'[c] \subseteq Missed(c)
                  \/ stable'[c] \ seen'[c] \subseteq MissedNext(c)
             ELSE /\ Missed(c)' \subseteq Missed(c) \/ Missed(c)' \subseteq MissedNext(c)
                  /\ MissedNext(c)' \subseteq Missed(c) \/ MissedNext(c)' \subseteq MissedNext(c)
    PROVE  Walk(c)'
<1>1. /\ Twice(c) \in SUBSET Products /\ TwiceNext(c) \in SUBSET Products
      /\ Missed(c) \in SUBSET Products /\ MissedNext(c) \in SUBSET Products
  BY DEF TypeOK, Twice, TwiceNext, Missed, MissedNext, Counted
<1>2. edits - since[c] \in Int /\ edits' - since'[c] = edits - since[c]
  BY PoolAssumption DEF TypeOK, Keeps
<1>3. /\ Cardinality(Twice(c)) <= edits - since[c]
      /\ Cardinality(TwiceNext(c)) <= edits - since[c]
      /\ Cardinality(Missed(c)) <= edits - since[c]
      /\ Cardinality(MissedNext(c)) <= edits - since[c]
  BY DEF Walk, Paid
<1>4. Paid(c, Twice(c))'
  <2>1. Cardinality(Twice(c)') <= edits - since[c]
    BY <1>1, <1>2, <1>3, PaidLess
  <2>2. QED
    BY <1>2, <2>1 DEF Paid
<1>5. Paid(c, TwiceNext(c))'
  <2>1. Cardinality(TwiceNext(c)') <= edits - since[c]
    BY <1>1, <1>2, <1>3, PaidLess
  <2>2. QED
    BY <1>2, <2>1 DEF Paid
<1>6. CASE phase'[c] = "done"
  <2>1. Cardinality(stable'[c] \ seen'[c]) <= edits - since[c]
    BY <1>1, <1>2, <1>3, <1>6, PaidLess
  <2>2. QED
    BY <1>2, <1>4, <1>5, <1>6, <2>1 DEF Walk, Paid
<1>7. CASE phase'[c] # "done"
  <2>1. /\ Cardinality(Missed(c)') <= edits - since[c]
        /\ Cardinality(MissedNext(c)') <= edits - since[c]
    BY <1>1, <1>2, <1>3, <1>7, PaidLess
  <2>2. QED
    BY <1>2, <1>4, <1>5, <1>7, <2>1 DEF Walk, Paid
<1>8. QED
  BY <1>6, <1>7

Stays(c) ==
    /\ Keeps(c)
    /\ offset'[c] = offset[c] /\ seen'[c] = seen[c] /\ again'[c] = again[c]

(* Nothing of c's happens; or it sends the request of its next page.       *)
LEMMA WalkStays ==
    ASSUME TypeOK, NEW c \in Readers, Walk(c), Stays(c),
           page'[c] = page[c], total'[c] = total[c],
           phase'[c] = "done" <=> phase[c] = "done"
    PROVE  Walk(c)'
<1>1. \A p \in stable[c] : Rank(p)' = Rank(p)
  BY RanksStay DEF Stays, Keeps, TypeOK
<1>2. /\ Missed(c)' = Missed(c) /\ MissedNext(c)' = MissedNext(c)
      /\ Twice(c)' = Twice(c) /\ TwiceNext(c)' = TwiceNext(c)
  BY <1>1 DEF Stays, Keeps, Missed, MissedNext, Twice, TwiceNext, Had, HadAgain, Onward,
              Counted, Outside
<1>3. QED
  BY <1>2 DEF Stays, Keeps, Walk, Paid

(* The walk begins: nothing was lost.                                      *)
LEMMA WalkBegins ==
    ASSUME TypeOK, Types', NEW c \in Readers, Place(c), phase[c] = "new",
           page'[c] = Pending, total'[c] = Pending, phase'[c] = "waiting",
           offset'[c] = offset[c], seen'[c] = seen[c], again'[c] = again[c],
           since'[c] = edits, edits' = edits
    PROVE  Walk(c)'
<1>1. offset'[c] = 0 /\ seen'[c] = {} /\ again'[c] = {}
  BY DEF Place
<1>2. \A p \in Products : ~(Rank(p)' < 0)
  <2>1. ASSUME NEW p \in Products PROVE Rank(p)' \in Nat
    <3>1. Before(p)' \in SUBSET Products
      BY DEF Before, Rows
    <3>2. QED
      BY <3>1, FS_Subset, FS_CardinalityType, PoolAssumption DEF Rank
  <2>2. QED
    BY <2>1
<1>3. stable'[c] \subseteq Products
  BY DEF Types
<1>4. Missed(c)' = {} /\ MissedNext(c)' = {}
  BY <1>1, <1>2, <1>3 DEF Missed, MissedNext, Had, Onward, Counted, Outside
<1>5. Twice(c)' = {} /\ TwiceNext(c)' = {}
  BY <1>1 DEF Twice, TwiceNext, Had, HadAgain, Onward, Counted
<1>6. Cardinality({}) <= edits' - since'[c]
  BY FS_EmptySet, PoolAssumption DEF Types
<1>7. QED
  BY <1>4, <1>5, <1>6 DEF Walk, Paid

(* A request of c fails: what it has read is forgotten.                    *)
LEMMA WalkFails ==
    ASSUME TypeOK, NEW c \in Readers, Walk(c), Stays(c), phase[c] # "done",
           page'[c] = Pending, total'[c] = Pending, phase'[c] # "done"
    PROVE  Walk(c)'
<1>1. \A p \in stable[c] : Rank(p)' = Rank(p)
  BY RanksStay DEF Stays, Keeps, TypeOK
<1>2. Missed(c)' \subseteq Missed(c) /\ MissedNext(c)' \subseteq Missed(c)
  BY <1>1 DEF Stays, Keeps, Missed, MissedNext, Had, Onward, Counted, Outside
<1>3. Twice(c)' \subseteq Twice(c) /\ TwiceNext(c)' \subseteq Twice(c)
  BY <1>1 DEF Stays, Keeps, Twice, TwiceNext, Had, HadAgain, Onward, Counted, Outside
<1>4. QED
  BY <1>2, <1>3, WalkKeeps DEF Stays

(* The count comes first: it is the end of the list.                       *)
LEMMA WalkCounts ==
    ASSUME TypeOK, NEW c \in Readers, Place(c), Walk(c), Stays(c),
           phase[c] # "done", phase'[c] # "done",
           page[c] = Pending, page'[c] = Pending, total[c] = Pending,
           total'[c] = Cardinality(Rows)
    PROVE  Walk(c)'
<1>1. \A p \in stable[c] : Rank(p)' = Rank(p)
  BY RanksStay DEF Stays, Keeps, TypeOK
<1>2. \A p \in stable[c] : ~(Rank(p) >= Cardinality(Rows))
  <2>1. ASSUME NEW p \in stable[c] PROVE ~(Rank(p) >= Cardinality(Rows))
    <3>1. p \in Rows /\ p \in Products
      BY DEF Place, Alone, Rows
    <3>2. Rank(p) < Cardinality(Rows) /\ Rank(p) \in Nat /\ Cardinality(Rows) \in Nat
      BY <3>1, RankBelowCount, RankTyped, RowsTyped
    <3>3. QED
      BY <3>2
  <2>2. QED
    BY <2>1
<1>3. Missed(c)' \subseteq Missed(c) /\ MissedNext(c)' \subseteq MissedNext(c)
  BY <1>1, <1>2 DEF Stays, Keeps, Missed, MissedNext, Had, Onward, Counted, Outside
<1>4. Twice(c)' \subseteq Twice(c) /\ TwiceNext(c)' \subseteq TwiceNext(c)
  BY <1>1 DEF Stays, Keeps, Twice, TwiceNext, Had, HadAgain, Onward, Counted, Outside
<1>5. QED
  BY <1>3, <1>4, WalkKeeps DEF Stays

(* The page comes first: it shows what is between its ends, no more.       *)
LEMMA StableOnPage ==
    ASSUME TypeOK, NEW c \in Readers, Place(c), NEW S \in Pages(offset[c])
    PROVE  /\ S \in SUBSET Products /\ S # Pending
           /\ offset[c] \in Nat /\ Limit \in Nat
           /\ \A p \in stable[c] :
                /\ Rank(p) \in Nat
                /\ p \in S <=> offset[c] <= Rank(p) /\ Rank(p) < offset[c] + Limit
<1>1. offset[c] \in Nat /\ Limit \in Nat
  BY PoolAssumption DEF TypeOK
<1>2. S \in SUBSET Products /\ S # Pending
  BY PoolAssumption DEF Pages, Rows
<1>3. ASSUME NEW p \in stable[c]
      PROVE  /\ Rank(p) \in Nat
             /\ p \in S <=> offset[c] <= Rank(p) /\ Rank(p) < offset[c] + Limit
  <2>1. p \in Alone(table) /\ p \in Products
    BY DEF Place, Alone
  <2>2. QED
    BY <1>1, <2>1, RankTyped, PageShows
<1>4. QED
  BY <1>1, <1>2, <1>3

LEMMA WalkReads ==
    ASSUME TypeOK, NEW c \in Readers, Place(c), Walk(c), Stays(c),
           phase[c] # "done", phase'[c] # "done",
           page[c] = Pending, total[c] = Pending, total'[c] = Pending,
           NEW S \in Pages(offset[c]), page'[c] = S
    PROVE  Walk(c)'
<1>1. \A p \in stable[c] : Rank(p)' = Rank(p)
  BY RanksStay DEF Stays, Keeps, TypeOK
<1>2. Missed(c)' \subseteq Missed(c) /\ MissedNext(c)' \subseteq MissedNext(c)
  BY <1>1, StableOnPage
     DEF Stays, Keeps, Missed, MissedNext, Had, Onward, Counted, Outside
<1>3. Twice(c)' \subseteq Twice(c)
  BY <1>1 DEF Stays, Keeps, Twice, Counted, Outside
<1>4. TwiceNext(c)' \subseteq Twice(c)
  <2>1. ASSUME NEW p \in TwiceNext(c)' PROVE p \in Twice(c)
    <3>1. /\ S # Pending /\ offset[c] \in Nat /\ Limit \in Nat
          /\ \A q \in stable[c] :
               /\ Rank(q) \in Nat
               /\ q \in S <=> offset[c] <= Rank(q) /\ Rank(q) < offset[c] + Limit
      BY StableOnPage
    <3>2. /\ p \in stable[c]
          /\ \/ p \in again[c] \cup (seen[c] \cap S)
             \/ p \in seen[c] \cup S /\ (Rank(p) < 0 \/ Rank(p) >= offset[c] + Limit)
      BY <1>1, <2>1, <3>1
         DEF Stays, Keeps, TwiceNext, Had, HadAgain, Onward, Counted, Outside
    <3>3. p \in again[c] \/ (p \in seen[c] /\ Rank(p) >= offset[c])
      BY <3>1, <3>2
    <3>4. offset[c] # Pending
      BY <3>1, PoolAssumption
    <3>5. QED
      BY <3>2, <3>3, <3>4 DEF Twice, Counted, Outside
  <2>2. QED
    BY <2>1
<1>5. QED
  BY <1>2, <1>3, <1>4, WalkKeeps DEF Stays

(* The page comes second: behind it is seen or missed already, and what is *)
(* beyond the count is missed if this was the last one.                    *)
LEMMA WalkReadsLast ==
    ASSUME TypeOK, NEW c \in Readers, Place(c), Walk(c), Keeps(c), phase[c] # "done",
           page[c] = Pending, total[c] # Pending,
           NEW S \in Pages(offset[c]), Answers(c, S, total[c])
    PROVE  Walk(c)'
<1>1. \A p \in stable[c] : Rank(p)' = Rank(p)
  BY RanksStay DEF Keeps, TypeOK
<1>2. /\ offset'[c] = offset[c] + Limit
      /\ seen'[c] = seen[c] \cup S /\ again'[c] = again[c] \cup (S \cap seen[c])
      /\ page'[c] = Pending /\ total'[c] = Pending
      /\ phase'[c] = IF offset[c] + Limit < total[c] THEN "next" ELSE "done"
  BY DEF Answers, HasMore, TypeOK, Owners
<1>3. /\ S \in SUBSET Products /\ S # Pending
      /\ offset[c] \in Nat /\ Limit \in Nat /\ total[c] \in Nat
      /\ \A p \in stable[c] :
           /\ Rank(p) \in Nat
           /\ p \in S <=> offset[c] <= Rank(p) /\ Rank(p) < offset[c] + Limit
  BY StableOnPage DEF TypeOK
<1>4. stable[c] \subseteq Products
  BY DEF TypeOK
<1>5. phase'[c] = "done" => stable'[c] \ seen'[c] \subseteq Missed(c)
  BY <1>2, <1>3, <1>4 DEF Keeps, Missed, Counted, Outside
<1>6. Missed(c)' \subseteq Missed(c) /\ MissedNext(c)' \subseteq Missed(c)
  BY <1>1, <1>2, <1>3 DEF Keeps, Missed, MissedNext, Had, Onward, Counted, Outside
<1>7. Twice(c)' \subseteq Twice(c) /\ TwiceNext(c)' \subseteq Twice(c)
  <2>1. ASSUME NEW p, p \in Twice(c)' \/ p \in TwiceNext(c)' PROVE p \in Twice(c)
    <3>1. /\ p \in stable[c]
          /\ \/ p \in again[c] \cup (S \cap seen[c])
             \/ p \in seen[c] \cup S /\ (Rank(p) < 0 \/ Rank(p) >= offset[c] + Limit)
      BY <1>1, <1>2, <2>1
         DEF Keeps, Twice, TwiceNext, Had, HadAgain, Onward, Counted, Outside
    <3>2. p \in again[c] \/ (p \in seen[c] /\ Rank(p) >= offset[c])
      BY <1>3, <3>1
    <3>3. offset[c] # Pending
      BY <1>3, PoolAssumption
    <3>4. QED
      BY <3>1, <3>2, <3>3 DEF Twice, Counted, Outside
  <2>2. QED
    BY <2>1
<1>8. QED
  BY <1>5, <1>6, <1>7, WalkKeeps

(* The count comes second: nothing alone in its location is beyond it.     *)
LEMMA WalkCountsLast ==
    ASSUME TypeOK, NEW c \in Readers, Place(c), Walk(c), Keeps(c), phase[c] # "done",
           page[c] # Pending, total[c] = Pending,
           Answers(c, page[c], Cardinality(Rows))
    PROVE  Walk(c)'
<1>1. \A p \in stable[c] : Rank(p)' = Rank(p)
  BY RanksStay DEF Keeps, TypeOK
<1>2. /\ offset'[c] = offset[c] + Limit
      /\ seen'[c] = seen[c] \cup page[c] /\ again'[c] = again[c] \cup (page[c] \cap seen[c])
      /\ page'[c] = Pending /\ total'[c] = Pending
      /\ phase'[c] = IF offset[c] + Limit < Cardinality(Rows) THEN "next" ELSE "done"
  BY DEF Answers, HasMore, TypeOK, Owners
<1>3. ASSUME NEW p \in stable[c]
      PROVE  Rank(p) < Cardinality(Rows) /\ Rank(p) \in Nat /\ p \in Products
  <2>1. p \in Rows /\ p \in Products
    BY DEF Place, Alone, Rows
  <2>2. QED
    BY <2>1, RankBelowCount, RankTyped
<1>4. offset[c] \in Nat /\ Limit \in Nat /\ Cardinality(Rows) \in Nat
  BY RowsTyped, PoolAssumption DEF TypeOK
<1>5. phase'[c] = "done" => stable'[c] \ seen'[c] \subseteq MissedNext(c)
  BY <1>2, <1>3, <1>4 DEF Keeps, MissedNext, Had, Onward, Counted, Outside
<1>6. Missed(c)' \subseteq MissedNext(c) /\ MissedNext(c)' \subseteq MissedNext(c)
  BY <1>1, <1>2 DEF Keeps, Missed, MissedNext, Had, Onward, Counted, Outside
<1>7. Twice(c)' \subseteq TwiceNext(c) /\ TwiceNext(c)' \subseteq TwiceNext(c)
  BY <1>1, <1>2 DEF Keeps, Twice, TwiceNext, Had, HadAgain, Onward, Counted, Outside
<1>8. QED
  BY <1>5, <1>6, <1>7, WalkKeeps

-----------------------------------------------------------------------------
(* The statements of the pool.                                             *)
LEMMA WithoutFacts ==
    ASSUME NEW S, NEW P \in Seq(S), NEW i \in DOMAIN P
    PROVE  /\ Without(P, i) \in Seq(S)
           /\ Len(P) \in Nat \ {0} /\ DOMAIN P = 1..Len(P)
           /\ DOMAIN Without(P, i) = 1..(Len(P) - 1)
           /\ \A j \in 1..(Len(P) - 1) :
                Without(P, i)[j] = IF j < i THEN P[j] ELSE P[j + 1]
<1>1. Len(P) \in Nat /\ DOMAIN P = 1..Len(P) /\ Len(P) # 0
  OBVIOUS
<1>2. Len(P) - 1 \in Nat
  BY <1>1
<1>3. ASSUME NEW j \in 1..(Len(P) - 1) PROVE P[IF j < i THEN j ELSE j + 1] \in S
  BY <1>1
<1>4. Without(P, i) \in [1..(Len(P) - 1) -> S]
  BY <1>3 DEF Without
<1>5. Without(P, i) \in Seq(S)
  BY <1>2, <1>4, SeqDef
<1>6. QED
  BY <1>1, <1>5 DEF Without

(* A statement that leaves the pool leaves the others there.               *)
LEMMA RemoveSpots ==
    ASSUME NEW P \in Seq(Statement), NEW i \in DOMAIN P, NEW s
    PROVE  /\ Never(P, s) => Never(Without(P, i), s)
           /\ Once(P, s) /\ P[i] = s => Never(Without(P, i), s)
           /\ Once(P, s) /\ P[i] # s => Once(Without(P, i), s)
<1> DEFINE n == Len(P)
           Q == Without(P, i)
<1>1. /\ n \in Nat /\ i \in 1..n /\ DOMAIN P = 1..n /\ DOMAIN Q = 1..(n - 1)
      /\ \A j \in 1..(n - 1) : Q[j] = IF j < i THEN P[j] ELSE P[j + 1]
  BY WithoutFacts
<1> HIDE DEF n, Q
<1>2. \A j \in DOMAIN Q :
        /\ j < i => j \in DOMAIN P /\ Q[j] = P[j]
        /\ ~(j < i) => j + 1 \in DOMAIN P /\ Q[j] = P[j + 1]
  BY <1>1
<1>3. Never(P, s) => Never(Q, s)
  BY <1>2 DEF Never, Spots
<1>4. ASSUME NEW k \in DOMAIN P, Spots(P, s) = {k}
      PROVE  /\ P[i] = s => Never(Q, s)
             /\ P[i] # s => Once(Q, s)
  <2>1. P[k] = s /\ \A j \in DOMAIN P : P[j] = s => j = k
    BY <1>4 DEF Spots
  <2>2. CASE i = k
    <3>1. \A j \in DOMAIN Q : Q[j] # s
      BY <1>1, <2>1, <2>2
    <3>2. QED
      BY <2>1, <2>2, <3>1 DEF Never, Spots
  <2>3. CASE k < i
    <3>1. k \in DOMAIN Q /\ Q[k] = s /\ \A j \in DOMAIN Q : Q[j] = s => j = k
      BY <1>1, <2>1, <2>3
    <3>2. P[i] # s
      BY <1>1, <2>1, <2>3
    <3>3. QED
      BY <3>1, <3>2 DEF Once, Spots
  <2>4. CASE i < k
    <3>1. k \in 1..n /\ k - 1 \in 1..(n - 1) /\ ~(k - 1 < i) /\ (k - 1) + 1 = k
      BY <1>1, <2>4
    <3>2. Q[k - 1] = s
      BY <1>1, <2>1, <3>1
    <3>3. ASSUME NEW j \in 1..(n - 1), Q[j] = s PROVE j = k - 1
      <4>1. CASE j < i
        BY <1>1, <2>1, <2>4, <3>1, <3>3, <4>1
      <4>2. CASE ~(j < i)
        <5>1. j + 1 \in DOMAIN P /\ P[j + 1] = s
          BY <1>1, <3>3, <4>2
        <5>2. j + 1 = k
          BY <2>1, <5>1
        <5>3. QED
          BY <3>1, <5>2
      <4>3. QED
        BY <4>1, <4>2
    <3>4. P[i] # s
      BY <1>1, <2>1, <2>4
    <3>5. QED
      BY <1>1, <3>1, <3>2, <3>3, <3>4 DEF Once, Spots
  <2>5. QED
    BY <1>1, <2>2, <2>3, <2>4
<1>5. QED
  BY <1>3, <1>4 DEF Once, Q

LEMMA AbandonFacts ==
    ASSUME NEW P \in Seq(Statement), NEW o
    PROVE  /\ Abandoned(P, o) \in Seq(Statement) /\ DOMAIN Abandoned(P, o) = DOMAIN P
           /\ \A i \in DOMAIN P :
                Abandoned(P, o)[i] = IF P[i].of = o THEN Orphan ELSE P[i]
<1>1. /\ Len(P) \in Nat /\ DOMAIN P = 1..Len(P)
      /\ \A i \in 1..Len(P) : P[i] \in Statement
  OBVIOUS
<1>2. Orphan \in Statement
  BY DEF Statement
<1>3. Abandoned(P, o) \in [1..Len(P) -> Statement]
  BY <1>1, <1>2 DEF Abandoned
<1>4. Abandoned(P, o) \in Seq(Statement)
  BY <1>1, <1>3, SeqDef
<1>5. QED
  BY <1>1, <1>3, <1>4 DEF Abandoned

LEMMA AbandonSpots ==
    ASSUME NEW P \in Seq(Statement), NEW o, NEW s, s.of # Nobody
    PROVE  /\ s.of = o => Never(Abandoned(P, o), s)
           /\ s.of # o => Spots(Abandoned(P, o), s) = Spots(P, s)
<1>1. Orphan.of = Nobody
  BY DEF Orphan
<1>2. QED
  BY <1>1, AbandonFacts DEF Never, Spots

LEMMA ConcatSpots ==
    ASSUME NEW P \in Seq(Statement), NEW R \in Seq(Statement), NEW s
    PROVE  /\ P \o R \in Seq(Statement)
           /\ Never(R, s) => Spots(P \o R, s) = Spots(P, s)
           /\ DOMAIN P \subseteq DOMAIN (P \o R)
           /\ Never(P, s) /\ Once(R, s) => Once(P \o R, s)
<1> DEFINE m == Len(P)
           n == Len(R)
           Q == P \o R
<1>1. /\ m \in Nat /\ n \in Nat /\ DOMAIN P = 1..m /\ DOMAIN R = 1..n
      /\ Q \in Seq(Statement) /\ DOMAIN Q = 1..(m + n)
      /\ \A i \in 1..(m + n) : Q[i] = IF i <= m THEN P[i] ELSE R[i - m]
  BY ConcatProperties
<1> HIDE DEF m, n, Q
<1>2. \A i \in DOMAIN Q : \/ (i \in DOMAIN P /\ Q[i] = P[i])
                           \/ \E k \in DOMAIN R : i = m + k /\ Q[i] = R[k]
  <2>1. ASSUME NEW i \in 1..(m + n), ~(i <= m)
        PROVE  i - m \in 1..n /\ i = m + (i - m) /\ Q[i] = R[i - m]
    BY <1>1, <2>1
  <2>2. ASSUME NEW i \in 1..(m + n), i <= m
        PROVE  i \in 1..m /\ Q[i] = P[i]
    BY <1>1, <2>2
  <2>3. QED
    BY <1>1, <2>1, <2>2
<1>3. \A i \in DOMAIN P : i \in DOMAIN Q /\ Q[i] = P[i]
  BY <1>1
<1>4. \A k \in DOMAIN R : m + k \in DOMAIN Q /\ Q[m + k] = R[k]
  <2>1. ASSUME NEW k \in 1..n
        PROVE  m + k \in 1..(m + n) /\ ~(m + k <= m) /\ (m + k) - m = k
    BY <1>1
  <2>2. QED
    BY <1>1, <2>1
<1>5. Never(R, s) => Spots(Q, s) = Spots(P, s)
  BY <1>2, <1>3 DEF Never, Spots
<1>6. ASSUME Never(P, s), NEW k \in DOMAIN R, Spots(R, s) = {k}
      PROVE  Once(Q, s)
  <2>1. R[k] = s /\ \A j \in DOMAIN R : R[j] = s => j = k
    BY <1>6 DEF Spots
  <2>2. \A j \in DOMAIN P : P[j] # s
    BY <1>6 DEF Never, Spots
  <2>3. m + k \in DOMAIN Q /\ Q[m + k] = s
    BY <1>4, <2>1
  <2>4. \A j \in DOMAIN Q : Q[j] = s => j = m + k
    BY <1>2, <2>1, <2>2
  <2>5. Spots(Q, s) = {m + k}
    BY <2>3, <2>4 DEF Spots
  <2>6. QED
    BY <2>3, <2>5 DEF Once
<1>7. QED
  BY <1>1, <1>3, <1>5, <1>6 DEF Once, Q

-----------------------------------------------------------------------------
(* The steps.  A statement that runs is one that somebody waits for, or    *)
(* nobody's.                                                               *)
LEMMA RunningFacts ==
    ASSUME Types, ServedInv, NEW i \in Running
    PROVE  /\ i \in DOMAIN pool /\ pool[i] \in Statement
           /\ \/ pool[i].of \in Readers /\ pool[i].kind \in {"page", "count"}
              \/ pool[i].of = Probe /\ pool[i].kind = "select 1"
              \/ pool[i].of = Nobody /\ pool[i].kind = "none"
           /\ pool[i].of \in Readers =>
                /\ pool[i] = Asks(pool[i].of, pool[i].kind)
                /\ phase[pool[i].of] = "waiting"
                /\ Result(pool[i].of, pool[i].kind) = Pending
<1>1. Len(pool) \in Nat /\ DOMAIN pool = 1..Len(pool) /\ PoolSize \in Nat
  BY PoolAssumption DEF Types
<1>2. i \in DOMAIN pool
  BY <1>1 DEF Running, Smaller
<1>3. pool[i] \in Statement
  BY <1>2 DEF Types
<1>4. /\ \/ pool[i].of \in Readers /\ pool[i].kind \in {"page", "count"}
         \/ pool[i].of = Probe /\ pool[i].kind = "select 1"
         \/ pool[i].of = Nobody /\ pool[i].kind = "none"
      /\ pool[i] = Asks(pool[i].of, pool[i].kind)
  <2>1. CASE pool[i] \in [of : Readers, kind : {"page", "count"}]
    BY <2>1 DEF Asks
  <2>2. CASE pool[i] \in [of : {Probe}, kind : {"select 1"}]
    BY <2>2 DEF Asks
  <2>3. CASE pool[i] = Orphan
    BY <2>3 DEF Orphan, Asks
  <2>4. QED
    BY <1>3, <2>1, <2>2, <2>3 DEF Statement
<1>5. ASSUME pool[i].of \in Readers
      PROVE  /\ phase[pool[i].of] = "waiting"
             /\ Result(pool[i].of, pool[i].kind) = Pending
  <2>1. pool[i].kind \in {"page", "count"}
    BY <1>4, <1>5, PoolAssumption
  <2>2. ~Never(pool, Asks(pool[i].of, pool[i].kind))
    BY <1>2, <1>4 DEF Never, Spots
  <2>3. QED
    BY <1>5, <2>1, <2>2 DEF ServedInv, Served
<1>6. QED
  BY <1>2, <1>3, <1>4, <1>5

(* Nothing of reader o's changes.                                          *)
Idle(o) ==
    /\ phase'[o] = phase[o] /\ page'[o] = page[o] /\ total'[o] = total[o]
    /\ offset'[o] = offset[o] /\ seen'[o] = seen[o] /\ again'[o] = again[o]
    /\ stable'[o] = stable[o] /\ since'[o] = since[o]

KeepsStatements(o) ==
    \A kind \in {"page", "count"} :
      /\ Once(pool, Asks(o, kind)) => Once(pool', Asks(o, kind))
      /\ Never(pool, Asks(o, kind)) => Never(pool', Asks(o, kind))

LEMMA IdleInv ==
    ASSUME TypeOK, NEW o \in Readers, Served(o), Place(o), Walk(o), Idle(o),
           KeepsStatements(o), table' = table, edits' = edits
    PROVE  Served(o)' /\ Place(o)' /\ Walk(o)'
<1>1. Served(o)'
  BY DEF Idle, KeepsStatements, Served, Result, Asks
<1>2. Place(o)'
  BY DEF Idle, Place
<1>3. Walk(o)'
  BY WalkStays DEF Idle, Stays, Keeps
<1>4. QED
  BY <1>1, <1>2, <1>3

LEMMA SamePool ==
    ASSUME pool' = pool
    PROVE  \A o \in Readers : KeepsStatements(o)
  BY DEF KeepsStatements

LEMMA EditInv ==
    ASSUME Inv, NEW p \in Products, NEW l \in Locations \cup {NoRow}, Edit(p, l)
    PROVE  Inv'
<1>1. TypeOK
  BY TypeParts DEF Inv
<1>2. Types'
  BY PoolAssumption DEF Inv, Types, Edit
<1>3. ServedInv'
  BY DEF Inv, Edit, ServedInv, Served, Result
<1>4. PlaceInv'
  BY DEF Inv, Edit, PlaceInv, Place
<1>5. WalkInv'
  BY <1>1, EditWalk DEF Inv, PlaceInv, WalkInv
<1>6. QED
  BY <1>2, <1>3, <1>4, <1>5 DEF Inv

(* What concerns the probe or nobody concerns no walk.                     *)
LEMMA OtherInv ==
    ASSUME Inv, Types', table' = table, edits' = edits, UNCHANGED walks,
           \A o \in Readers : phase'[o] = phase[o] /\ KeepsStatements(o)
    PROVE  Inv'
<1>1. TypeOK
  BY TypeParts DEF Inv
<1>2. ASSUME NEW o \in Readers PROVE Served(o)' /\ Place(o)' /\ Walk(o)'
  <2>1. Idle(o)
    BY DEF Idle, walks
  <2>2. QED
    BY <1>1, <2>1, IdleInv DEF Inv, ServedInv, PlaceInv, WalkInv
<1>3. QED
  BY <1>2 DEF Inv, ServedInv, PlaceInv, WalkInv

LEMMA HangInv ==
    ASSUME Inv, Hangs \/ Recovers \/ UNCHANGED vars
    PROVE  Inv'
<1>1. Types'
  <2>1. CASE Hangs
    BY <2>1, PoolAssumption DEF Inv, Types, Hangs, Fault, walks
  <2>2. CASE Recovers
    BY <2>2 DEF Inv, Types, Recovers, walks
  <2>3. CASE UNCHANGED vars
    BY <2>3 DEF Inv, Types, vars, walks
  <2>4. QED
    BY <2>1, <2>2, <2>3
<1>2. QED
  BY <1>1, SamePool, OtherInv DEF Inv, Types, Hangs, Recovers, vars, Owners

(* A listing puts its two statements behind all others, and no more.       *)
LEMMA ListSpots ==
    ASSUME Types, NEW c \in Readers, List(c)
    PROVE  /\ pool' \in Seq(Statement)
           /\ \A kind \in {"page", "count"} :
                Never(pool, Asks(c, kind)) => Once(pool', Asks(c, kind))
           /\ \A o \in Readers \ {c} : KeepsStatements(o)
<1> DEFINE kinds == <<"page", "count">>
           R == [i \in DOMAIN kinds |-> [of |-> c, kind |-> kinds[i]]]
<1>1. pool' = pool \o R
  BY DEF List, Requests
<1>2. /\ DOMAIN R = 1..2 /\ R[1] = Asks(c, "page") /\ R[2] = Asks(c, "count")
  BY DEF Asks
<1>3. R \in Seq(Statement)
  <2>1. Asks(c, "page") \in Statement /\ Asks(c, "count") \in Statement
    BY DEF Asks, Statement
  <2>2. R \in [1..2 -> Statement]
    BY <2>1 DEF Asks
  <2>3. QED
    BY <2>2, SeqDef
<1> HIDE DEF R
<1>4. Asks(c, "page") # Asks(c, "count")
  <2>1. Asks(c, "page").kind = "page" /\ Asks(c, "count").kind = "count"
    BY DEF Asks
  <2>2. QED
    BY <2>1
<1>5. Once(R, Asks(c, "page")) /\ Once(R, Asks(c, "count"))
  <2>1. Spots(R, Asks(c, "page")) = {1} /\ Spots(R, Asks(c, "count")) = {2}
    BY <1>2, <1>4 DEF Spots
  <2>2. QED
    BY <1>2, <2>1 DEF Once
<1>6. ASSUME NEW o \in Readers \ {c}, NEW kind \in {"page", "count"}
      PROVE  Never(R, Asks(o, kind))
  <2>1. Asks(o, kind).of = o /\ Asks(c, "page").of = c /\ Asks(c, "count").of = c
    BY DEF Asks
  <2>2. QED
    BY <1>2, <2>1 DEF Never, Spots
<1>7. pool \in Seq(Statement)
  BY DEF Types
<1>8. /\ pool' \in Seq(Statement)
      /\ \A kind \in {"page", "count"} :
           Never(pool, Asks(c, kind)) => Once(pool', Asks(c, kind))
  BY <1>1, <1>3, <1>5, <1>7, ConcatSpots
<1>9. ASSUME NEW o \in Readers \ {c} PROVE KeepsStatements(o)
  <2>1. ASSUME NEW kind \in {"page", "count"}
        PROVE  /\ Spots(pool', Asks(o, kind)) = Spots(pool, Asks(o, kind))
               /\ DOMAIN pool \subseteq DOMAIN pool'
    BY <1>1, <1>3, <1>6, <1>7, ConcatSpots
  <2>2. QED
    BY <2>1 DEF KeepsStatements, Once, Never
<1>10. QED
  BY <1>8, <1>9

LEMMA ListInv ==
    ASSUME Inv, NEW c \in Readers, List(c)
    PROVE  Inv'
<1>1. /\ TypeOK /\ Types /\ Served(c) /\ Place(c) /\ Walk(c)
  BY TypeParts DEF Inv, ServedInv, PlaceInv, WalkInv
<1>2. /\ phase[c] \in {"new", "next", "error"} /\ page[c] = Pending /\ total[c] = Pending
      /\ phase' = [phase EXCEPT ![c] = "waiting"]
      /\ since' = [since EXCEPT ![c] = IF phase[c] = "new" THEN edits ELSE @]
      /\ stable' = [stable EXCEPT ![c] = IF phase[c] = "new" THEN Alone(table) ELSE @]
      /\ UNCHANGED <<table, hung, edits, faults, offset, page, total, seen, again>>
  BY <1>1 DEF List, Requests, Place
<1>3. phase'[c] = "waiting" /\ \A o \in Readers \ {c} : phase'[o] = phase[o]
  BY <1>1, <1>2 DEF Types, Owners
<1>4. /\ since'[c] = (IF phase[c] = "new" THEN edits ELSE since[c])
      /\ stable'[c] = (IF phase[c] = "new" THEN Alone(table) ELSE stable[c])
      /\ \A o \in Readers \ {c} : since'[o] = since[o] /\ stable'[o] = stable[o]
  BY <1>1, <1>2 DEF Types
<1>5. Types'
  <2>1. phase' \in [Owners -> {"new", "waiting", "next", "error", "done", "ok"}]
    BY <1>1, <1>2 DEF Types
  <2>2. since' \in [Readers -> 0..edits] /\ stable' \in [Readers -> SUBSET Products]
    <3>1. Alone(table) \in SUBSET Products /\ edits \in 0..edits
      BY <1>1, PoolAssumption DEF Types, Alone
    <3>2. QED
      BY <1>1, <1>2, <3>1 DEF Types
  <2>3. pool' \in Seq(Statement)
    BY <1>1, ListSpots
  <2>4. QED
    BY <1>1, <1>2, <2>1, <2>2, <2>3 DEF Types
<1>6. Served(c)'
  <2>1. \A kind \in {"page", "count"} : Never(pool, Asks(c, kind))
    BY <1>1, <1>2 DEF Served
  <2>2. \A kind \in {"page", "count"} : Once(pool', Asks(c, kind))
    BY <1>1, <2>1, ListSpots
  <2>3. QED
    BY <1>2, <1>3, <2>2 DEF Served, Result, Asks
<1>7. Place(c)'
  <2>1. stable'[c] \subseteq Alone(table')
    BY <1>1, <1>2, <1>4 DEF Place
  <2>2. QED
    BY <1>2, <1>3, <2>1 DEF Place
<1>8. Walk(c)'
  <2>1. CASE phase[c] = "new"
    BY <1>1, <1>2, <1>3, <1>4, <1>5, <2>1, WalkBegins
  <2>2. CASE phase[c] # "new"
    BY <1>1, <1>2, <1>3, <1>4, <2>2, WalkStays DEF Stays, Keeps
  <2>3. QED
    BY <2>1, <2>2
<1>9. ASSUME NEW o \in Readers \ {c} PROVE Served(o)' /\ Place(o)' /\ Walk(o)'
  <2>1. Idle(o)
    BY <1>2, <1>3, <1>4 DEF Idle
  <2>2. KeepsStatements(o)
    BY <1>1, ListSpots
  <2>3. QED
    BY <1>1, <1>2, <2>1, <2>2, IdleInv DEF Inv, ServedInv, PlaceInv, WalkInv
<1>10. QED
  BY <1>5, <1>6, <1>7, <1>8, <1>9 DEF Inv, ServedInv, PlaceInv, WalkInv

(* The probe's statements come and go without touching those of walks.     *)
LEMMA ProbeInv ==
    ASSUME Inv, Check \/ CheckTimesOut
    PROVE  Inv'
<1>1. Types /\ Probe \in Owners /\ Probe \notin Readers /\ Nobody \notin Owners
  BY PoolAssumption DEF Inv, Owners
<1>2. /\ \E new \in {"waiting", "error"} : phase' = [phase EXCEPT ![Probe] = new]
      /\ UNCHANGED <<table, hung, walks, edits, faults>>
  BY DEF Check, CheckTimesOut, Requests
<1>3. pool' \in Seq(Statement) /\ \A o \in Readers : KeepsStatements(o)
  <2>1. CASE Check
    <3>1. PICK select : select = "select 1"
      OBVIOUS
    <3> DEFINE kinds == <<select>>
               R == [i \in DOMAIN kinds |-> [of |-> Probe, kind |-> kinds[i]]]
    <3>2. pool' = pool \o R
      BY <2>1, <3>1 DEF Check, Requests
    <3>3. DOMAIN R = {1} /\ R[1] = Asks(Probe, select)
      BY DEF Asks
    <3>4. R \in Seq(Statement)
      <4>1. Asks(Probe, select) \in Statement
        BY <3>1 DEF Asks, Statement
      <4>2. R = <<Asks(Probe, select)>>
        BY DEF Asks
      <4>3. QED
        BY <4>1, <4>2
    <3> HIDE DEF R
    <3>5. ASSUME NEW o \in Readers, NEW kind \in {"page", "count"}
          PROVE  Never(R, Asks(o, kind))
      <4>1. Asks(o, kind).of = o /\ Asks(Probe, select).of = Probe
        BY DEF Asks
      <4>2. QED
        BY <1>1, <3>3, <4>1 DEF Never, Spots
    <3>6. pool \in Seq(Statement)
      BY <1>1 DEF Types
    <3>7. pool' \in Seq(Statement) /\ DOMAIN pool \subseteq DOMAIN pool'
      BY <3>2, <3>4, <3>6, ConcatSpots
    <3>8. ASSUME NEW o \in Readers, NEW kind \in {"page", "count"}
          PROVE  Spots(pool', Asks(o, kind)) = Spots(pool, Asks(o, kind))
      BY <3>2, <3>4, <3>5, <3>6, ConcatSpots
    <3>9. QED
      BY <3>7, <3>8 DEF KeepsStatements, Once, Never
  <2>2. CASE CheckTimesOut
    <3>1. pool' = Abandoned(pool, Probe) /\ pool \in Seq(Statement)
      BY <1>1, <2>2 DEF CheckTimesOut, Types
    <3>2. ASSUME NEW o \in Readers, NEW kind \in {"page", "count"}
          PROVE  Spots(pool', Asks(o, kind)) = Spots(pool, Asks(o, kind))
      <4>1. Asks(o, kind).of = o
        BY DEF Asks
      <4>2. o # Probe /\ o # Nobody
        BY <1>1 DEF Owners
      <4>3. QED
        BY <3>1, <4>1, <4>2, AbandonSpots
    <3>3. pool' \in Seq(Statement) /\ DOMAIN pool' = DOMAIN pool
      BY <3>1, AbandonFacts
    <3>4. QED
      BY <3>2, <3>3 DEF KeepsStatements, Once, Never
  <2>3. QED
    BY <2>1, <2>2
<1>4. phase' \in [Owners -> {"new", "waiting", "next", "error", "done", "ok"}]
      /\ \A o \in Readers : phase'[o] = phase[o]
  BY <1>1, <1>2 DEF Types, Owners
<1>5. Types'
  BY <1>1, <1>2, <1>3, <1>4 DEF Types, walks
<1>6. QED
  BY <1>2, <1>3, <1>4, <1>5, OtherInv

(* A statement that ends leaves every other one where it is.               *)
LEMMA EndsSpots ==
    ASSUME Types, ServedInv, NEW i \in Running, pool' = Without(pool, i)
    PROVE  /\ pool' \in Seq(Statement)
           /\ \A o \in Readers : pool[i].of # o => KeepsStatements(o)
           /\ \A kind \in {"page", "count"} :
                pool[i].of \in Readers =>
                  /\ pool[i].kind = kind => Never(pool', Asks(pool[i].of, kind))
                  /\ pool[i].kind # kind =>
                       /\ Once(pool, Asks(pool[i].of, kind))
                            => Once(pool', Asks(pool[i].of, kind))
                       /\ Never(pool, Asks(pool[i].of, kind))
                            => Never(pool', Asks(pool[i].of, kind))
<1>1. i \in DOMAIN pool /\ pool \in Seq(Statement) /\ pool' \in Seq(Statement)
  BY RunningFacts, WithoutFacts DEF Types
<1>2. ASSUME NEW o \in Readers, pool[i].of # o PROVE KeepsStatements(o)
  <2>1. ASSUME NEW kind \in {"page", "count"} PROVE pool[i] # Asks(o, kind)
    BY <1>2 DEF Asks
  <2>2. QED
    BY <1>1, <2>1, RemoveSpots DEF KeepsStatements
<1>3. ASSUME NEW kind \in {"page", "count"}, pool[i].of \in Readers, pool[i].kind = kind
      PROVE  Never(pool', Asks(pool[i].of, kind))
  <2>1. /\ pool[i] = Asks(pool[i].of, kind) /\ phase[pool[i].of] = "waiting"
        /\ Result(pool[i].of, kind) = Pending
    BY <1>3, RunningFacts
  <2>2. Once(pool, Asks(pool[i].of, kind))
    BY <1>3, <2>1 DEF ServedInv, Served
  <2>3. QED
    BY <1>1, <2>1, <2>2, RemoveSpots
<1>4. ASSUME NEW kind \in {"page", "count"}, pool[i].of \in Readers, pool[i].kind # kind
      PROVE  /\ Once(pool, Asks(pool[i].of, kind)) => Once(pool', Asks(pool[i].of, kind))
             /\ Never(pool, Asks(pool[i].of, kind)) => Never(pool', Asks(pool[i].of, kind))
  <2>1. pool[i] # Asks(pool[i].of, kind)
    BY <1>4 DEF Asks
  <2>2. QED
    BY <1>1, <2>1, RemoveSpots
<1>5. QED
  BY <1>1, <1>2, <1>3, <1>4

(* Both results of c are there.                                            *)
LEMMA AnswersEffect ==
    ASSUME Types, NEW c \in Readers, NEW S \in SUBSET Products, NEW n \in Nat,
           Answers(c, S, n)
    PROVE  /\ phase' \in [Owners -> {"new", "waiting", "next", "error", "done", "ok"}]
           /\ offset' \in [Readers -> Nat]
           /\ page' \in [Readers -> {Pending} \cup SUBSET Products]
           /\ total' \in [Readers -> {Pending} \cup Nat]
           /\ seen' \in [Readers -> SUBSET Products]
           /\ again' \in [Readers -> SUBSET Products]
           /\ phase'[c] \in {"next", "done"} /\ page'[c] = Pending /\ total'[c] = Pending
           /\ \A o \in Readers \ {c} :
                /\ phase'[o] = phase[o] /\ page'[o] = page[o] /\ total'[o] = total[o]
                /\ offset'[o] = offset[o] /\ seen'[o] = seen[o] /\ again'[o] = again[o]
<1>1. c \in Owners /\ Readers \subseteq Owners /\ Limit \in Nat
  BY PoolAssumption DEF Owners
<1>2. /\ phase' \in [Owners -> {"new", "waiting", "next", "error", "done", "ok"}]
      /\ phase'[c] \in {"next", "done"}
      /\ \A o \in Readers \ {c} : phase'[o] = phase[o]
  BY <1>1 DEF Answers, Types
<1>3. /\ offset' \in [Readers -> Nat]
      /\ \A o \in Readers \ {c} : offset'[o] = offset[o]
  BY <1>1 DEF Answers, Types
<1>4. /\ page' \in [Readers -> {Pending} \cup SUBSET Products]
      /\ total' \in [Readers -> {Pending} \cup Nat]
      /\ page'[c] = Pending /\ total'[c] = Pending
      /\ \A o \in Readers \ {c} : page'[o] = page[o] /\ total'[o] = total[o]
  BY DEF Answers, Types
<1>5. /\ seen' \in [Readers -> SUBSET Products]
      /\ again' \in [Readers -> SUBSET Products]
      /\ \A o \in Readers \ {c} : seen'[o] = seen[o] /\ again'[o] = again[o]
  BY DEF Answers, Types
<1>6. QED
  BY <1>2, <1>3, <1>4, <1>5

LEMMA AnswersPlace ==
    ASSUME Inv, NEW c \in Readers, phase'[c] \in {"next", "done"},
           page'[c] = Pending, total'[c] = Pending,
           \A kind \in {"page", "count"} : Never(pool', Asks(c, kind)),
           table' = table, stable' = stable
    PROVE  Served(c)' /\ Place(c)'
<1>1. Served(c)'
  BY DEF Served, Asks
<1>2. Place(c)'
  BY DEF Inv, PlaceInv, Place
<1>3. QED
  BY <1>1, <1>2

LEMMA ReadsPageInv ==
    ASSUME Inv, NEW i \in Running, ReadsPage(i)
    PROVE  Inv'
<1>0. PICK c : c = pool[i].of
  OBVIOUS
<1>1. /\ TypeOK /\ Types /\ ServedInv
      /\ \A o \in Readers : Served(o) /\ Place(o) /\ Walk(o)
  BY TypeParts DEF Inv, ServedInv, PlaceInv, WalkInv
<1>2. pool' = Without(pool, i) /\ pool[i].kind = "page"
      /\ UNCHANGED <<table, hung, stable, since, edits, faults>>
  BY DEF ReadsPage, Runs
<1>3. /\ c \in Readers /\ c \in Owners /\ Readers \subseteq Owners
      /\ phase[c] = "waiting" /\ page[c] = Pending
  BY <1>0, <1>1, <1>2, RunningFacts DEF Result, Owners
<1>4. /\ pool' \in Seq(Statement)
      /\ \A o \in Readers \ {c} : KeepsStatements(o)
      /\ Never(pool', Asks(c, "page"))
      /\ Once(pool, Asks(c, "count")) => Once(pool', Asks(c, "count"))
      /\ Never(pool, Asks(c, "count")) => Never(pool', Asks(c, "count"))
  BY <1>0, <1>1, <1>2, <1>3, EndsSpots
<1>5. PICK S \in Pages(offset[c]) :
        IF total[c] # Pending
          THEN Answers(c, S, total[c])
          ELSE /\ page' = [page EXCEPT ![c] = S]
               /\ UNCHANGED <<total, seen, again, offset, phase>>
  BY <1>0 DEF ReadsPage
<1>6. S \in SUBSET Products /\ S # Pending
  BY <1>1, <1>3, StableOnPage
<1>7. Keeps(c)
  BY <1>2 DEF Keeps
<1>8. CASE total[c] # Pending
  <2>1. Answers(c, S, total[c]) /\ total[c] \in Nat
    BY <1>1, <1>3, <1>5, <1>8 DEF Types
  <2>2. /\ phase' \in [Owners -> {"new", "waiting", "next", "error", "done", "ok"}]
        /\ offset' \in [Readers -> Nat]
        /\ page' \in [Readers -> {Pending} \cup SUBSET Products]
        /\ total' \in [Readers -> {Pending} \cup Nat]
        /\ seen' \in [Readers -> SUBSET Products]
        /\ again' \in [Readers -> SUBSET Products]
        /\ phase'[c] \in {"next", "done"} /\ page'[c] = Pending /\ total'[c] = Pending
        /\ \A o \in Readers \ {c} :
             /\ phase'[o] = phase[o] /\ page'[o] = page[o] /\ total'[o] = total[o]
             /\ offset'[o] = offset[o] /\ seen'[o] = seen[o] /\ again'[o] = again[o]
    BY <1>1, <1>3, <1>6, <2>1, AnswersEffect
  <2>3. Types'
    BY <1>1, <1>2, <1>4, <2>2 DEF Types
  <2>4. Never(pool, Asks(c, "count"))
    BY <1>1, <1>3, <1>8 DEF Served, Result
  <2>5. Served(c)' /\ Place(c)'
    BY <1>2, <1>3, <1>4, <2>2, <2>4, AnswersPlace
  <2>6. Walk(c)'
    BY <1>1, <1>3, <1>7, <1>8, <2>1, WalkReadsLast
  <2>7. ASSUME NEW o \in Readers \ {c} PROVE Served(o)' /\ Place(o)' /\ Walk(o)'
    <3>1. Idle(o)
      BY <1>2, <2>2 DEF Idle
    <3>2. QED
      BY <1>1, <1>2, <1>4, <3>1, IdleInv
  <2>8. QED
    BY <2>3, <2>5, <2>6, <2>7 DEF Inv, ServedInv, PlaceInv, WalkInv
<1>9. CASE total[c] = Pending
  <2>1. /\ page' = [page EXCEPT ![c] = S]
        /\ UNCHANGED <<total, seen, again, offset, phase>>
    BY <1>5, <1>9
  <2>2. Types' /\ page'[c] = S /\ \A o \in Readers \ {c} : page'[o] = page[o]
    BY <1>1, <1>2, <1>3, <1>4, <1>6, <2>1 DEF Types
  <2>3. Served(c)'
    <3>1. Once(pool', Asks(c, "count"))
      BY <1>1, <1>3, <1>4, <1>9 DEF Served, Result
    <3>2. phase'[c] = "waiting" /\ page'[c] # Pending /\ total'[c] = Pending
      BY <1>3, <1>6, <1>9, <2>1, <2>2
    <3>3. QED
      BY <1>4, <3>1, <3>2 DEF Served, Result, Asks
  <2>4. Place(c)'
    BY <1>1, <1>2, <1>3, <1>9, <2>1 DEF Place
  <2>5. Walk(c)'
    <3>1. Stays(c)
      BY <1>7, <2>1 DEF Stays
    <3>2. QED
      BY <1>1, <1>3, <1>9, <2>1, <2>2, <3>1, WalkReads
  <2>6. ASSUME NEW o \in Readers \ {c} PROVE Served(o)' /\ Place(o)' /\ Walk(o)'
    <3>1. Idle(o)
      BY <1>2, <2>1, <2>2 DEF Idle
    <3>2. QED
      BY <1>1, <1>2, <1>4, <3>1, IdleInv
  <2>7. QED
    BY <2>2, <2>3, <2>4, <2>5, <2>6 DEF Inv, ServedInv, PlaceInv, WalkInv
<1>10. QED
  BY <1>8, <1>9

LEMMA CountsInv ==
    ASSUME Inv, NEW i \in Running, Counts(i)
    PROVE  Inv'
<1>0. PICK c : c = pool[i].of
  OBVIOUS
<1>1. /\ TypeOK /\ Types /\ ServedInv
      /\ \A o \in Readers : Served(o) /\ Place(o) /\ Walk(o)
  BY TypeParts DEF Inv, ServedInv, PlaceInv, WalkInv
<1>2. pool' = Without(pool, i) /\ pool[i].kind = "count"
      /\ UNCHANGED <<table, hung, stable, since, edits, faults>>
  BY DEF Counts, Runs
<1>3. /\ c \in Readers /\ c \in Owners /\ Readers \subseteq Owners
      /\ phase[c] = "waiting" /\ total[c] = Pending
  BY <1>0, <1>1, <1>2, RunningFacts DEF Result, Owners
<1>4. /\ pool' \in Seq(Statement)
      /\ \A o \in Readers \ {c} : KeepsStatements(o)
      /\ Never(pool', Asks(c, "count"))
      /\ Once(pool, Asks(c, "page")) => Once(pool', Asks(c, "page"))
      /\ Never(pool, Asks(c, "page")) => Never(pool', Asks(c, "page"))
  BY <1>0, <1>1, <1>2, <1>3, EndsSpots
<1>5. IF page[c] # Pending
        THEN Answers(c, page[c], Cardinality(Rows))
        ELSE /\ total' = [total EXCEPT ![c] = Cardinality(Rows)]
             /\ UNCHANGED <<page, seen, again, offset, phase>>
  BY <1>0 DEF Counts
<1>6. Cardinality(Rows) \in Nat /\ Cardinality(Rows) # Pending
  BY <1>1, RowsTyped, PoolAssumption
<1>7. Keeps(c)
  BY <1>2 DEF Keeps
<1>8. CASE page[c] # Pending
  <2>1. Answers(c, page[c], Cardinality(Rows)) /\ page[c] \in SUBSET Products
    BY <1>1, <1>3, <1>5, <1>8 DEF Types
  <2>2. /\ phase' \in [Owners -> {"new", "waiting", "next", "error", "done", "ok"}]
        /\ offset' \in [Readers -> Nat]
        /\ page' \in [Readers -> {Pending} \cup SUBSET Products]
        /\ total' \in [Readers -> {Pending} \cup Nat]
        /\ seen' \in [Readers -> SUBSET Products]
        /\ again' \in [Readers -> SUBSET Products]
        /\ phase'[c] \in {"next", "done"} /\ page'[c] = Pending /\ total'[c] = Pending
        /\ \A o \in Readers \ {c} :
             /\ phase'[o] = phase[o] /\ page'[o] = page[o] /\ total'[o] = total[o]
             /\ offset'[o] = offset[o] /\ seen'[o] = seen[o] /\ again'[o] = again[o]
    BY <1>1, <1>3, <1>6, <2>1, AnswersEffect
  <2>3. Types'
    BY <1>1, <1>2, <1>4, <2>2 DEF Types
  <2>4. Never(pool, Asks(c, "page"))
    BY <1>1, <1>3, <1>8 DEF Served, Result
  <2>5. Served(c)' /\ Place(c)'
    BY <1>2, <1>3, <1>4, <2>2, <2>4, AnswersPlace
  <2>6. Walk(c)'
    BY <1>1, <1>3, <1>7, <1>8, <2>1, WalkCountsLast
  <2>7. ASSUME NEW o \in Readers \ {c} PROVE Served(o)' /\ Place(o)' /\ Walk(o)'
    <3>1. Idle(o)
      BY <1>2, <2>2 DEF Idle
    <3>2. QED
      BY <1>1, <1>2, <1>4, <3>1, IdleInv
  <2>8. QED
    BY <2>3, <2>5, <2>6, <2>7 DEF Inv, ServedInv, PlaceInv, WalkInv
<1>9. CASE page[c] = Pending
  <2>1. /\ total' = [total EXCEPT ![c] = Cardinality(Rows)]
        /\ UNCHANGED <<page, seen, again, offset, phase>>
    BY <1>5, <1>9
  <2>2. /\ Types' /\ total'[c] = Cardinality(Rows)
        /\ \A o \in Readers \ {c} : total'[o] = total[o]
    BY <1>1, <1>2, <1>3, <1>4, <1>6, <2>1 DEF Types
  <2>3. Served(c)'
    <3>1. Once(pool', Asks(c, "page"))
      BY <1>1, <1>3, <1>4, <1>9 DEF Served, Result
    <3>2. phase'[c] = "waiting" /\ page'[c] = Pending /\ total'[c] # Pending
      BY <1>3, <1>6, <1>9, <2>1, <2>2
    <3>3. QED
      BY <1>4, <3>1, <3>2 DEF Served, Result, Asks
  <2>4. Place(c)'
    BY <1>1, <1>2, <1>3, <1>9, <2>1 DEF Place
  <2>5. Walk(c)'
    <3>1. Stays(c)
      BY <1>7, <2>1 DEF Stays
    <3>2. QED
      BY <1>1, <1>3, <1>9, <2>1, <2>2, <3>1, WalkCounts
  <2>6. ASSUME NEW o \in Readers \ {c} PROVE Served(o)' /\ Place(o)' /\ Walk(o)'
    <3>1. Idle(o)
      BY <1>2, <2>1, <2>2 DEF Idle
    <3>2. QED
      BY <1>1, <1>2, <1>4, <3>1, IdleInv
  <2>7. QED
    BY <2>2, <2>3, <2>4, <2>5, <2>6 DEF Inv, ServedInv, PlaceInv, WalkInv
<1>10. QED
  BY <1>8, <1>9

(* The answer of a check, and the end of what nobody waits for.            *)
LEMMA OthersRunInv ==
    ASSUME Inv, NEW i \in Running, Checks(i) \/ RunsForNobody(i)
    PROVE  Inv'
<1>1. /\ pool' = Without(pool, i) /\ pool[i].of \notin Readers
      /\ UNCHANGED <<table, hung, walks, edits, faults>>
  BY PoolAssumption DEF Checks, RunsForNobody, Runs, walks
<1>2. pool' \in Seq(Statement) /\ \A o \in Readers : KeepsStatements(o)
  BY <1>1, EndsSpots DEF Inv
<1>3. /\ phase' \in [Owners -> {"new", "waiting", "next", "error", "done", "ok"}]
      /\ \A o \in Readers : phase'[o] = phase[o]
  BY PoolAssumption DEF Inv, Types, Owners, Checks, RunsForNobody
<1>4. Types'
  BY <1>1, <1>2, <1>3 DEF Inv, Types, walks
<1>5. QED
  BY <1>1, <1>2, <1>3, <1>4, OtherInv

(* A listing that failed leaves no statement of its own behind.            *)
LEMMA FailsSpots ==
    ASSUME Types, ServedInv, NEW i \in Running,
           pool' = Without(Abandoned(pool, pool[i].of), i)
    PROVE  /\ pool' \in Seq(Statement)
           /\ \A o \in Readers :
                /\ pool[i].of # o => KeepsStatements(o)
                /\ pool[i].of = o =>
                     \A kind \in {"page", "count"} : Never(pool', Asks(o, kind))
<1> DEFINE P == Abandoned(pool, pool[i].of)
<1>1. i \in DOMAIN pool /\ pool \in Seq(Statement)
  BY RunningFacts DEF Types
<1>2. P \in Seq(Statement) /\ DOMAIN P = DOMAIN pool /\ P[i] = Orphan
  BY <1>1, AbandonFacts
<1>3. ASSUME NEW o \in Readers, NEW kind \in {"page", "count"}
      PROVE  /\ P[i] # Asks(o, kind)
             /\ pool[i].of = o => Never(P, Asks(o, kind))
             /\ pool[i].of # o => Spots(P, Asks(o, kind)) = Spots(pool, Asks(o, kind))
  <2>1. Asks(o, kind).of = o /\ o # Nobody /\ Orphan.of = Nobody
    BY PoolAssumption DEF Asks, Orphan
  <2>2. QED
    BY <1>1, <1>2, <2>1, AbandonSpots
<1> HIDE DEF P
<1>4. pool' = Without(P, i)
  BY DEF P
<1>5. pool' \in Seq(Statement)
  BY <1>1, <1>2, <1>4, WithoutFacts
<1>6. ASSUME NEW o \in Readers, pool[i].of # o PROVE KeepsStatements(o)
  <2>1. ASSUME NEW kind \in {"page", "count"}
        PROVE  /\ Once(pool, Asks(o, kind)) => Once(pool', Asks(o, kind))
               /\ Never(pool, Asks(o, kind)) => Never(pool', Asks(o, kind))
    <3>1. /\ Once(pool, Asks(o, kind)) => Once(P, Asks(o, kind))
          /\ Never(pool, Asks(o, kind)) => Never(P, Asks(o, kind))
      BY <1>2, <1>3, <1>6 DEF Once, Never
    <3>2. QED
      BY <1>1, <1>2, <1>3, <1>4, <3>1, RemoveSpots
  <2>2. QED
    BY <2>1 DEF KeepsStatements
<1>7. ASSUME NEW o \in Readers, pool[i].of = o, NEW kind \in {"page", "count"}
      PROVE  Never(pool', Asks(o, kind))
  BY <1>1, <1>2, <1>3, <1>4, <1>7, RemoveSpots
<1>8. QED
  BY <1>5, <1>6, <1>7

LEMMA FailsInv ==
    ASSUME Inv, NEW i \in Running, Fails(i)
    PROVE  Inv'
<1>0. PICK c : c = pool[i].of
  OBVIOUS
<1>1. /\ TypeOK /\ Types /\ ServedInv
      /\ \A o \in Readers : Served(o) /\ Place(o) /\ Walk(o)
  BY TypeParts DEF Inv, ServedInv, PlaceInv, WalkInv
<1>2. /\ pool' = Without(Abandoned(pool, pool[i].of), i)
      /\ phase' = IF c = Nobody THEN phase ELSE [phase EXCEPT ![c] = "error"]
      /\ page' = [o \in Readers |-> IF o = c THEN Pending ELSE page[o]]
      /\ total' = [o \in Readers |-> IF o = c THEN Pending ELSE total[o]]
      /\ UNCHANGED <<table, hung, offset, seen, again, stable, since, edits>>
      /\ faults < MaxFaults /\ faults' = faults + 1
  BY <1>0 DEF Fails, Fault
<1>3. c \in Owners \cup {Nobody} /\ Nobody \notin Owners
  BY <1>0, <1>1, RunningFacts, PoolAssumption DEF Owners
<1>4. /\ pool' \in Seq(Statement)
      /\ \A o \in Readers \ {c} : KeepsStatements(o)
      /\ c \in Readers => \A kind \in {"page", "count"} : Never(pool', Asks(c, kind))
  BY <1>0, <1>1, <1>2, FailsSpots
<1>5. Types'
  <2>1. phase' \in [Owners -> {"new", "waiting", "next", "error", "done", "ok"}]
    BY <1>1, <1>2 DEF Types
  <2>2. page' \in [Readers -> {Pending} \cup SUBSET Products]
    BY <1>1, <1>2 DEF Types
  <2>3. total' \in [Readers -> {Pending} \cup Nat]
    BY <1>1, <1>2 DEF Types
  <2>4. faults' \in 0..MaxFaults
    BY <1>1, <1>2, PoolAssumption DEF Types
  <2>5. QED
    BY <1>1, <1>2, <1>4, <2>1, <2>2, <2>3, <2>4 DEF Types
<1>6. ASSUME NEW o \in Readers \ {c} PROVE Served(o)' /\ Place(o)' /\ Walk(o)'
  <2>1. Idle(o)
    BY <1>1, <1>2 DEF Idle, Types, Owners
  <2>2. QED
    BY <1>1, <1>2, <1>4, <2>1, IdleInv
<1>7. ASSUME c \in Readers PROVE Served(c)' /\ Place(c)' /\ Walk(c)'
  <2>1. phase[c] = "waiting"
    BY <1>0, <1>1, <1>7, RunningFacts
  <2>2. phase'[c] = "error" /\ page'[c] = Pending /\ total'[c] = Pending
    BY <1>1, <1>2, <1>3, <1>7 DEF Types, Owners
  <2>3. Served(c)'
    BY <1>4, <1>7, <2>2 DEF Served, Asks
  <2>4. Place(c)'
    BY <1>1, <1>2, <1>7, <2>2 DEF Place
  <2>5. Walk(c)'
    BY <1>1, <1>2, <1>7, <2>1, <2>2, WalkFails DEF Stays, Keeps
  <2>6. QED
    BY <2>3, <2>4, <2>5
<1>8. QED
  BY <1>5, <1>6, <1>7 DEF Inv, ServedInv, PlaceInv, WalkInv

-----------------------------------------------------------------------------
LEMMA InvInit == Init => Inv
<1> SUFFICES ASSUME Init PROVE Inv
  OBVIOUS
<1>1. Types
  <2>1. MaxEdits \in Nat /\ MaxFaults \in Nat
    BY PoolAssumption
  <2>2. table \in [Products -> Locations \cup {NoRow}] /\ hung \in BOOLEAN
    BY DEF Init
  <2>3. pool \in Seq(Statement)
    BY EmptySeq DEF Init
  <2>4. /\ phase \in [Owners -> {"new", "waiting", "next", "error", "done", "ok"}]
        /\ page \in [Readers -> {Pending} \cup SUBSET Products]
        /\ total \in [Readers -> {Pending} \cup Nat]
        /\ seen \in [Readers -> SUBSET Products] /\ again \in [Readers -> SUBSET Products]
        /\ stable \in [Readers -> SUBSET Products]
    BY DEF Init
  <2>5. /\ offset \in [Readers -> Nat] /\ since \in [Readers -> 0..edits]
        /\ edits \in 0..MaxEdits /\ faults \in 0..MaxFaults
    BY <2>1 DEF Init
  <2>6. QED
    BY <2>2, <2>3, <2>4, <2>5 DEF Types
<1>2. ServedInv
  BY DEF Init, ServedInv, Served, Owners, Never, Spots
<1>3. PlaceInv
  BY DEF Init, PlaceInv, Place, Owners
<1>4. WalkInv
  <2>1. ASSUME NEW c \in Readers
        PROVE  /\ Twice(c) = {} /\ TwiceNext(c) = {} /\ Missed(c) = {} /\ MissedNext(c) = {}
               /\ edits - since[c] = 0 /\ phase[c] = "new"
    BY DEF Init, Twice, TwiceNext, Missed, MissedNext, Counted, Owners
  <2>2. Cardinality({}) = 0
    BY FS_EmptySet
  <2>3. QED
    BY <2>1, <2>2 DEF WalkInv, Walk, Paid
<1>5. QED
  BY <1>1, <1>2, <1>3, <1>4 DEF Inv

LEMMA InvStep == Inv /\ [Next]_vars => Inv'
<1> SUFFICES ASSUME Inv, [Next]_vars PROVE Inv'
  OBVIOUS
<1>1. ASSUME NEW p \in Products, NEW l \in Locations \cup {NoRow}, Edit(p, l) PROVE Inv'
  BY <1>1, EditInv
<1>2. CASE Hangs \/ Recovers \/ UNCHANGED vars
  BY <1>2, HangInv
<1>3. ASSUME NEW c \in Readers, List(c) PROVE Inv'
  BY <1>3, ListInv
<1>4. CASE Check \/ CheckTimesOut
  BY <1>4, ProbeInv
<1>5. ASSUME NEW i \in Running, Step(i) \/ Fails(i) PROVE Inv'
  BY <1>5, ReadsPageInv, CountsInv, OthersRunInv, FailsInv DEF Step
<1>6. QED
  BY <1>1, <1>2, <1>3, <1>4, <1>5 DEF Next

LEMMA InvHolds == Spec => []Inv
  BY InvInit, InvStep, PTL DEF Spec

(* A statement of a listing is in the pool exactly as long as its reader   *)
(* waits for the result: never for a request that was already answered.    *)
THEOREM TypeCorrect == Spec => []TypeOK
<1>1. Inv => TypeOK
  BY TypeParts DEF Inv
<1>2. QED
  BY InvHolds, <1>1, PTL

(* ListProducts, page by page: a finished walk missed no more of the       *)
(* products that stayed alone where they were than there were edits.       *)
THEOREM MissesArePaid == Spec => []MissesNeedEdits
<1>1. Inv => MissesNeedEdits
  BY DEF Inv, WalkInv, Walk, Paid, MissesNeedEdits
<1>2. QED
  BY InvHolds, <1>1, PTL

(* And was sent no more of them twice.                                     *)
THEOREM RepeatsArePaid == Spec => []RepeatsNeedEdits
<1>1. Inv => RepeatsNeedEdits
  <2> SUFFICES ASSUME Inv, NEW c \in Readers
               PROVE  Cardinality(stable[c] \cap again[c]) <= edits - since[c]
    BY DEF RepeatsNeedEdits
  <2>1. stable[c] \cap again[c] \in SUBSET Twice(c) /\ Twice(c) \in SUBSET Products
    BY DEF Inv, Types, Twice, Counted
  <2>2. Cardinality(Twice(c)) <= edits - since[c] /\ edits - since[c] \in Int
    <3>1. Paid(c, Twice(c)) /\ Types
      BY DEF Inv, WalkInv, Walk
    <3>2. edits - since[c] \in Int
      BY <3>1, PoolAssumption DEF Types
    <3>3. QED
      BY <3>1, <3>2 DEF Paid
  <2>3. QED
    BY <2>1, <2>2, PaidLess
<1>2. QED
  BY InvHolds, <1>1, PTL
=============================================================================
