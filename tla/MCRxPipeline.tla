---------------------------- MODULE MCRxPipeline ----------------------------
(* Model-checking instance of RnicRxPipeline: one reliable connection and  *)
(* one datagram queue pair share the meter and the port ceiling.           *)
EXTENDS RnicRxPipeline

CONSTANTS rc, ud
MCConnections == {rc, ud}
MCReliable == {rc}
=============================================================================
