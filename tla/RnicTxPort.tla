---------------------------- MODULE RnicTxPort ----------------------------
(***************************************************************************)
(* The transmit pipeline between a work queue that submits extents and a   *)
(* packet port, both free to act at any time the pipeline's contracts      *)
(* allow (rnic_tx_pipeline.h, "Downstream packet-port contract").          *)
(***************************************************************************)
EXTENDS RnicTxPipeline

CONSTANT PortMayReject   \* whether the port ever refuses a packet

ASSUME PortAssumption == PortMayReject \in BOOLEAN

VARIABLE wire   \* attempts the port still owes a terminal for, and how far

portVars == <<txVars, wire>>

PortInit == TxInit /\ wire = [tok \in Token |-> "none"]

-----------------------------------------------------------------------------
(* The packet port, external: one token per accepted attempt, then         *)
(* its progress reports and one terminal.                                  *)

PortReports(tok, stage) ==
    \/ /\ stage = "arrived" /\ wire[tok] = "started"
       /\ wire' = [wire EXCEPT ![tok] = "arrived"]
    \/ /\ stage = "delivered" /\ wire[tok] = "arrived"
       /\ wire' = [wire EXCEPT ![tok] = "none"]
    \/ /\ stage = "dropped" /\ wire[tok] # "none"
       /\ wire' = [wire EXCEPT ![tok] = "none"]

\* When the caller may enter the pipeline.
Steps(t) == t \in now .. MaxTime

PortSubmit == \E t \in Time, payload \in Payloads :
    Steps(t) /\ TrySubmit(payload, t) /\ UNCHANGED wire
PortRelease == \E t \in Time :
    Steps(t) /\ ReleaseBegin(t) /\ UNCHANGED wire
PortAccept == \E b \in BitDelays, m \in MessageDelays :
    /\ ReleaseAccepted(b, m)
    /\ wire' = [wire EXCEPT ![CurrentToken(LowestPsn(queue))] = "started"]
PortBusy == \E t \in Time : ReleaseBusy(t) /\ UNCHANGED wire
PortReject == PortMayReject /\ ReleaseRejected /\ UNCHANGED wire
PortStop == ReleaseEnd /\ UNCHANGED wire
Reply == \E t \in Time, k \in 0 .. cut, kind \in {"Ack", "Nak"} :
    Steps(t) /\ OnTransportPacket(kind, Psn(k), t) /\ UNCHANGED wire
Arrived == \E t \in Time, tok \in Token :
    Steps(t) /\ PortReports(tok, "arrived") /\ OnArrived(tok, t)
Delivered == \E t \in Time, tok \in Token :
    Steps(t) /\ PortReports(tok, "delivered") /\ OnDelivered(tok, t)
Dropped == \E t \in Time, tok \in Token :
    Steps(t) /\ PortReports(tok, "dropped") /\ OnDropped(tok, t)
Stale == \E t \in Time, tok \in Token,
            s \in {"arrived", "delivered", "dropped"} :
    Steps(t) /\ PortReports(tok, s) /\ OnStaleEvent(tok, t)

PortNext == \/ PortSubmit \/ PortRelease \/ PortAccept \/ PortBusy
            \/ PortReject \/ PortStop \/ Reply
            \/ Arrived \/ Delivered \/ Dropped \/ Stale

PortSpec == PortInit /\ [][PortNext]_portVars

-----------------------------------------------------------------------------
(* Properties. *)

\* The state has its declared shape.
PortTypeOK == TxTypeOK /\ wire \in [Token -> {"none", "started", "arrived"}]

\* Without the transport the port never reports an attempt the pipeline does
\* not know, which onDownstreamEvent would refuse as "unknown RNIC packet
\* port token"; with it, only an attempt already closed as dropped is stale.
StaleMeansReplaced ==
    \A tok \in Token : wire[tok] # "none" /\ tok \notin bindings =>
        TransportEnabled /\ told[tok] = "dropped"
=============================================================================
