--------------------------- MODULE PickPipelineMC ---------------------------
(* Small instances of PickPipeline for TLC.                                *)
EXTENDS PickPipeline, TLC

(* The picks compete for one product: its stock covers both, one or none. *)
CONSTANTS p1, k1, k2, bad

Competing == [k \in Picks |-> [product |-> p1, quantity |-> 1]]

(* The workers are alike, and so are the proper picks: all orders are equal. *)
Alike == Permutations(Workers) \cup Permutations(Picks \ Malformed)
=============================================================================
