--------------------------- MODULE PickRequestsMC ---------------------------
(* Small instances of PickRequests for TLC.                                *)
EXTENDS PickRequests, TLC

Interchangeable ==
    Permutations(Requests) \cup Permutations(Payloads) \cup Permutations(Replicas)
=============================================================================
