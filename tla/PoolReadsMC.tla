---------------------------- MODULE PoolReadsMC ----------------------------
(* A small instance of PoolReads for TLC.                                  *)
EXTENDS PoolReads
=============================================================================
