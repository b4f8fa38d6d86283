---------------------------- MODULE ProductTable ----------------------------
(***************************************************************************)
(* The products table (infra migration 0001_create_products.sql) and the   *)
(* effect of the statements PostgresProductRepository sends to it.  One    *)
(* SQL statement is atomic: under READ COMMITTED, Postgres serialises the  *)
(* statements that write the same row.  The operators are pure; the        *)
(* modules that hold a table decide who sends which statement and when.    *)
(***************************************************************************)
EXTENDS Integers

CONSTANTS
    Products,       \* product codes: the primary key
    Locations,      \* pick locations
    MaxQuantity,    \* the request schemas' bound on a quantity or a delta (999999)
    Int4Max,        \* the largest INTEGER Postgres stores (2^31 - 1)
    NoRow,          \* the absence of a row
    NoLocation      \* an omitted pick_location, SQL NULL

Row == [quantity : 0..Int4Max, pick_location : Locations]

ASSUME TableAssumption ==
    /\ MaxQuantity \in Nat \ {0}
    /\ Int4Max \in Nat
    /\ MaxQuantity <= Int4Max
    /\ NoLocation \notin Locations
    /\ NoRow \notin Row

Table == [Products -> Row \cup {NoRow}]

Exists(t, p) == t[p] # NoRow

(* The value quantity + $1 of the delta UPDATE.  *)
Shifted(t, p, d) == t[p].quantity + d

(* Mutant: the column is wider than the INTEGER its readers expect.        *)
NeverOutOfRange(t, p, d) == FALSE

(* The arithmetic leaves INTEGER: Postgres raises an error, whatever the   *)
(* guard says.                                                             *)
OutOfRange(t, p, d) == Exists(t, p) /\ Shifted(t, p, d) > Int4Max

(* Mutant: quantity + $1 > 0.                                              *)
MatchesPositive(t, p, d) == Exists(t, p) /\ Shifted(t, p, d) > 0

(* The WHERE clause of the delta UPDATE matches a row.                     *)
Matches(t, p, d) == Exists(t, p) /\ Shifted(t, p, d) >= 0

(* SET quantity = quantity + $1, pick_location = COALESCE($2, pick_location) *)
Adjusted(t, p, d, l) ==
    [t EXCEPT ![p] = [quantity |-> Shifted(t, p, d),
                      pick_location |-> IF l = NoLocation THEN @.pick_location
                                                          ELSE l]]

(* INSERT of a row, and UPDATE to absolute values.                         *)
Written(t, p, q, l) == [t EXCEPT ![p] = [quantity |-> q, pick_location |-> l]]

Deleted(t, p) == [t EXCEPT ![p] = NoRow]

(* From t to u, product p gained stock: it appeared or its quantity rose.  *)
Restocked(t, u, p) ==
    /\ Exists(u, p)
    /\ Exists(t, p) => u[p].quantity > t[p].quantity
=============================================================================
