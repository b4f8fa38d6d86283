---------------------------- MODULE MigrationsMC ----------------------------
(* Small instances of Migrations for TLC.                                  *)
EXTENDS Migrations

(* A rolling deployment: one replica still runs the image with one file.   *)
CONSTANT old

Rolling == [r \in Replicas |-> IF r = old THEN 1 ELSE NumFiles]
=============================================================================
