------------------------ MODULE ProductTableTheorems ------------------------
(* What the statements do to the products table, for every table.          *)
EXTENDS ProductTable, TLAPS

(* A row that exists has a quantity an INTEGER column can hold.            *)
LEMMA RowInRange ==
    ASSUME NEW t \in Table, NEW p \in Products, Exists(t, p)
    PROVE  t[p] \in Row /\ t[p].quantity \in 0..Int4Max
  BY DEF Table, Exists, Row

(* INSERT and the absolute UPDATE of a quantity in range keep the table    *)
(* well formed (create and update of PostgresProductRepository).           *)
LEMMA WrittenInTable ==
    ASSUME NEW t \in Table, NEW p \in Products, NEW q \in 0..Int4Max,
           NEW l \in Locations
    PROVE  Written(t, p, q, l) \in Table
  BY DEF Table, Written, Row

(* So does DELETE.                                                         *)
LEMMA DeletedInTable ==
    ASSUME NEW t \in Table, NEW p \in Products
    PROVE  Deleted(t, p) \in Table
  BY DEF Table, Deleted

(* So does the guarded delta UPDATE, when its guard matches and the sum    *)
(* does not leave INTEGER: the CHECK (quantity >= 0) never has to object.  *)
LEMMA AdjustedInTable ==
    ASSUME NEW t \in Table, NEW p \in Products, NEW d \in Int,
           NEW l \in Locations \cup {NoLocation},
           Matches(t, p, d), ~OutOfRange(t, p, d)
    PROVE  Adjusted(t, p, d, l) \in Table
<1>1. Exists(t, p) /\ t[p] \in Row /\ t[p].quantity \in 0..Int4Max
  BY RowInRange DEF Matches
<1>2. Shifted(t, p, d) \in 0..Int4Max
  BY <1>1, TableAssumption DEF Matches, OutOfRange, Shifted
<1>3. (IF l = NoLocation THEN t[p].pick_location ELSE l) \in Locations
  BY <1>1 DEF Row
<1> QED
  BY <1>2, <1>3 DEF Table, Adjusted, Row

(* The delta UPDATE leaves the row in place, with the shifted quantity.     *)
LEMMA AdjustedRow ==
    ASSUME NEW t \in Table, NEW p \in Products, NEW d \in Int,
           NEW l \in Locations \cup {NoLocation},
           Matches(t, p, d), ~OutOfRange(t, p, d)
    PROVE  /\ Exists(Adjusted(t, p, d, l), p)
           /\ Adjusted(t, p, d, l)[p].quantity = Shifted(t, p, d)
<1> DEFINE place == IF l = NoLocation THEN t[p].pick_location ELSE l
<1>1. Exists(t, p) /\ t[p] \in Row /\ t[p].quantity \in 0..Int4Max
  BY RowInRange DEF Matches
<1>2. Shifted(t, p, d) \in 0..Int4Max
  BY <1>1, TableAssumption DEF Matches, OutOfRange, Shifted
<1>3. place \in Locations
  BY <1>1 DEF Row
<1>4. Adjusted(t, p, d, l)[p] = [quantity |-> Shifted(t, p, d), pick_location |-> place]
  BY DEF Table, Adjusted
<1>5. [quantity |-> Shifted(t, p, d), pick_location |-> place] \in Row
  BY <1>2, <1>3 DEF Row
<1>6. Adjusted(t, p, d, l)[p] # NoRow
  BY <1>4, <1>5, TableAssumption
<1> QED
  BY <1>4, <1>6 DEF Exists

(* A guard that starts to match did so because the product gained stock:   *)
(* what makes the explanation of a rejected delta stale.                   *)
LEMMA MatchNeedsRestock ==
    ASSUME NEW t \in Table, NEW u \in Table, NEW p \in Products, NEW d \in Int,
           ~Matches(t, p, d), Matches(u, p, d)
    PROVE  Restocked(t, u, p)
<1>1. Exists(u, p) /\ u[p].quantity \in Int
  BY RowInRange, TableAssumption DEF Matches
<1>2. CASE ~Exists(t, p)
  BY <1>1, <1>2 DEF Restocked
<1>3. CASE Exists(t, p)
  <2>1. t[p].quantity \in Int
    BY <1>3, RowInRange, TableAssumption
  <2> QED
    BY <1>1, <1>3, <2>1 DEF Matches, Shifted, Restocked
<1> QED
  BY <1>2, <1>3
=============================================================================
