--------------------------- MODULE RnicResponder ---------------------------
(***************************************************************************)
(* The responder of a reliable connection: the per-connection state and    *)
(* the sequence check of RnicRxPipeline::onPacket                          *)
(* (simllm/backends/rnic/src/rnic_rx_pipeline.cpp), as operators.          *)
(***************************************************************************)
EXTENDS RnicPsn

NoQp == [seen |-> FALSE, expected |-> 0, in_recovery |-> FALSE]

\* qpState: the first packet to get here seeds the expected number.
QpState(qp, psn) ==
    IF qp.seen THEN qp
    ELSE [seen |-> TRUE, expected |-> psn, in_recovery |-> FALSE]

NoReply == [kind |-> "none", psn |-> 0]
Result(what, reply) == [what |-> what, reply |-> reply]
Silently == Result("DiscardedSilently", NoReply)

InSequence(qp, psn) ==
    [qp |-> [qp EXCEPT !.expected = PsnAfter(@, 1), !.in_recovery = FALSE],
     result |-> Result("Delivered", [kind |-> "Ack", psn |-> psn])]

\* Mutant: a duplicate is handed over again.
Duplicate_Delivered(qp) ==
    [qp |-> qp, result |-> Result("Delivered",
                       [kind |-> "Ack", psn |-> qp.expected - 1])]

Duplicate(qp) ==
    [qp |-> qp,
     result |-> Result("DiscardedDuplicate",
                       [kind |-> "Ack", psn |-> qp.expected - 1])]

\* Mutant: every discarded packet is acknowledged.
OutOfSequence_Acked(qp, kind) ==
    [qp |-> [qp EXCEPT !.in_recovery = TRUE],
     result |-> Result("DiscardedOutOfSequence",
                       [kind |-> "Ack", psn |-> qp.expected])]

\* One NAK per epoch; a retransmission out of sequence opens a new one.
OutOfSequence(qp, kind) ==
    [qp |-> [qp EXCEPT !.in_recovery = TRUE],
     result |-> Result("DiscardedOutOfSequence",
         IF qp.in_recovery /\ kind # "Retransmission" THEN NoReply
         ELSE [kind |-> "Nak", psn |-> qp.expected])]

\* Mutant: a gap is accepted.
SequenceCheck_AcceptsGap(qp, psn, kind) ==
    IF psn >= qp.expected THEN InSequence([qp EXCEPT !.expected = psn], psn)
    ELSE Duplicate(qp)

SequenceCheck(qp, psn, kind) ==
    IF psn = qp.expected THEN InSequence(qp, psn)
    ELSE IF psn < qp.expected THEN Duplicate(qp)
    ELSE OutOfSequence(qp, kind)
=============================================================================
