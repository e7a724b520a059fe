--------------------------- MODULE RnicTransport ---------------------------
(***************************************************************************)
(* A reliable connection end to end: the requester (RnicTxPipeline with    *)
(* the transport on), a wire that keeps order and loses packets, and the   *)
(* responder (RnicResponder).  The wire is that of FakeV2Fabric            *)
(* (simllm/backends/rnic/tests/fake_network.h): a lost packet draws no     *)
(* terminal, an arrival is reported to the requester, the responder's ACK  *)
(* comes back as the Delivered terminal of the attempt that arrived, and   *)
(* its NAK as a transport packet.  More than there, a loss may be          *)
(* reported, and replies may overtake one another and may be lost.         *)
(***************************************************************************)
EXTENDS RnicTxPipeline, RnicResponder, Sequences

CONSTANTS
    MaxFaults,         \* bound: losses and premature timeouts
    FirstPacketSafe    \* no loss before the responder has seen a packet

ASSUME TransportAssumption ==
    MaxFaults \in Nat /\ FirstPacketSafe \in BOOLEAN

VARIABLES
    forward,    \* attempts on their way to the responder, in order
    replies,    \* what is on its way back
    responder,  \* the responder's state of this connection
    host,       \* the sequence numbers handed to the far host
    faults      \* packets and replies lost, timeouts ahead of the wire

netVars == <<forward, replies, responder, host, faults>>
vars == <<txVars, netVars>>

Init ==
    /\ TxInit
    /\ forward = <<>>
    /\ replies = <<>>
    /\ responder = NoQp
    /\ host = <<>>
    /\ faults = 0

Without(s, i) == SubSeq(s, 1, i - 1) \o SubSeq(s, i + 1, Len(s))
Quiet == forward = <<>> /\ replies = <<>>

MayLose ==
    /\ faults < MaxFaults
    /\ FirstPacketSafe => responder.seen
Lose == MayLose /\ faults' = faults + 1

-----------------------------------------------------------------------------
(* The requester's own steps. *)

Submit == \E payload \in Payloads :
    TrySubmit(payload, now) /\ UNCHANGED netVars

\* The event loop calls the device when it has something to do.
Release == \E t \in {now, now + 1} \cap Time :
    /\ (t = now /\ CanIssue) \/ (TimerArmed /\ EarliestTimeout =< t)
    /\ faults' = faults + (IF t > now /\ ~Quiet THEN 1 ELSE 0)
    /\ faults' =< MaxFaults
    /\ ReleaseBegin(t)
    /\ UNCHANGED <<forward, replies, responder, host>>

Accept ==
    /\ ReleaseAccepted(0, 0)
    /\ forward' = Append(forward, CurrentToken(LowestPsn(queue)))
    /\ UNCHANGED <<replies, responder, host, faults>>

Stop == ReleaseEnd /\ UNCHANGED netVars

-----------------------------------------------------------------------------
(* The wire and the responder. *)

KindOf(tok) == IF tok[2] = 0 THEN "Data" ELSE "Retransmission"

TellRequester(tok) == OnArrived(tok, now) \/ OnStaleEvent(tok, now)

ReplyTo(tok, reply) ==
    CASE reply.kind = "Ack" -> <<[kind |-> "Delivered", tok |-> tok]>>
      [] reply.kind = "Nak" -> <<[kind |-> "Nak", psn |-> reply.psn]>>
      [] reply.kind = "none" -> <<>>

\* The attempt arrives and passes the responder's meter and ceilings.
Arrive ==
    /\ forward # <<>>
    /\ LET tok == Head(forward)
           psn == Psn(tok[1])
           checked == SequenceCheck(QpState(responder, psn), psn, KindOf(tok))
       IN  /\ TellRequester(tok)
           /\ responder' = checked.qp
           /\ replies' = replies \o ReplyTo(tok, checked.result.reply)
           /\ host' = IF checked.result.what = "Delivered"
                      THEN Append(host, psn) ELSE host
    /\ forward' = Tail(forward)
    /\ UNCHANGED faults

\* The attempt arrives and a ceiling discards it: the connection's state is
\* created all the same, and nothing is sent back.
ArriveAboveCeiling ==
    /\ forward # <<>> /\ faults < MaxFaults
    /\ faults' = faults + 1
    /\ TellRequester(Head(forward))
    /\ responder' = QpState(responder, Psn(Head(forward)[1]))
    /\ forward' = Tail(forward)
    /\ UNCHANGED <<replies, host>>

\* The attempt is lost on the wire or at the responder's meter.
LosePacket ==
    /\ forward # <<>> /\ Lose
    /\ forward' = Tail(forward)
    /\ UNCHANGED <<txVars, replies, responder, host>>

\* The same, and the port reports the drop.
DropPacket ==
    /\ forward # <<>> /\ Lose
    /\ forward' = Tail(forward)
    /\ replies' = Append(replies, [kind |-> "Dropped", tok |-> Head(forward)])
    /\ UNCHANGED <<txVars, responder, host>>

LoseReply == \E i \in DOMAIN replies :
    /\ Lose
    /\ replies' = Without(replies, i)
    /\ UNCHANGED <<txVars, forward, responder, host>>

Deliver == \E i \in DOMAIN replies :
    /\ LET m == replies[i]
       IN  \/ m.kind = "Nak" /\ OnTransportPacket("Nak", m.psn, now)
           \/ m.kind = "Delivered" /\ (OnDelivered(m.tok, now)
                                         \/ OnStaleEvent(m.tok, now))
           \/ m.kind = "Dropped" /\ (OnDropped(m.tok, now)
                                       \/ OnStaleEvent(m.tok, now))
    /\ replies' = Without(replies, i)
    /\ UNCHANGED <<forward, responder, host, faults>>

Next == \/ Submit \/ Release \/ Accept \/ Stop \/ Arrive \/ ArriveAboveCeiling
        \/ LosePacket \/ DropPacket \/ LoseReply \/ Deliver

Spec == Init /\ [][Next]_vars

\* The event loop steps the device to the times it announces and finishes
\* every call it makes, and the wire moves what it carries.
FairSpec ==
    /\ Spec
    /\ WF_vars(Release) /\ WF_vars(Accept) /\ WF_vars(Stop)
    /\ WF_vars(Arrive) /\ WF_vars(Deliver)

-----------------------------------------------------------------------------
(* Properties. *)

Accepted == {host[i] : i \in DOMAIN host}

\* A packet the requester counts as delivered was handed to the far host: a
\* number the responder acknowledges as a duplicate is one it "has already
\* accepted" (rnic_rx_pipeline.h:114).
AckedWasDelivered ==
    \A tok \in Token : told[tok] = "delivered" => Psn(tok[1]) \in Accepted

Abstract == INSTANCE ReliableTransfer WITH
    Sizes <- {PacketCount(p) : p \in Payloads},
    posted <- [e \in {d \in Extent : extents[d].status # "none"} |->
                  extents[e].first + extents[e].size],
    received <- Len(host),
    completed <- {e \in Extent : extents[e].status = "Delivered"}

\* Through losses, premature timeouts, stale terminals and overtaking
\* replies, the two ends together are a reliable in-order transfer, and
\* every submitted extent is delivered in the end.
EventuallyTransferred == Abstract!FairSpec

\* The numbers handed to the host are the numbers cut, in order.
HostInOrder == \A i \in DOMAIN host : host[i] = Psn(i - 1)
=============================================================================
