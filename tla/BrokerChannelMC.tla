-------------------------- MODULE BrokerChannelMC --------------------------
(* A small instance of BrokerChannel for TLC.  Processes and requests are  *)
(* not symmetric under the liveness properties of the run.                 *)
EXTENDS BrokerChannel
=============================================================================
