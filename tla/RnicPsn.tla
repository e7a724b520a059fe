------------------------------ MODULE RnicPsn ------------------------------
(***************************************************************************)
(* Packet sequence numbers: unsigned integers that wrap at PsnModulus      *)
(* (std::uint32_t in rnic_tx_pipeline.h and rnic_rx_pipeline.h), compared  *)
(* as plain integers everywhere.                                           *)
(***************************************************************************)
EXTENDS Integers

CONSTANT PsnModulus     \* 2^32 in the code

ASSUME PsnAssumption == PsnModulus \in Nat \ {0}

PsnAfter(psn, n) == (psn + n) % PsnModulus
=============================================================================
