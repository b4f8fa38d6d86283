---------------------------- MODULE ProductApiMC ----------------------------
(* Small instances of ProductApi for TLC.                                  *)
EXTENDS ProductApi, TLC

Interchangeable == Permutations(Requests)
=============================================================================
