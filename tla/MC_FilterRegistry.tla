------------------------- MODULE MC_FilterRegistry -------------------------
(* Instances of FilterRegistry for TLC.  Ids are model values.            *)
EXTENDS FilterRegistry

CONSTANTS f1, f2

MCIds == {f1, f2}
\* The delivery run follows one filter through its whole life.
MCOneId == {f1}
MCDeadline == 2

\* Every filter kind, with Tx events that match or do not match the
\* criteria, but none that DecodeResultData rejects.
MCKindsAll == {"pending", "blocks", "logs"}
MCDecodableLogEvents == {"match", "nomatch"}

\* Timing runs: five time units cover two full sweep periods after a
\* creation or poll at any phase of the ticker.
MCTimingMaxTime == 5
MCTimingMaxEmit == 1

\* Delivery runs: one filter with two events (to exercise their order),
\* and a one-unit window so that a sweep happens.  The pending-transaction
\* kind, whose listener never returns, is left to pending_leak; its other
\* paths are fired by the timing run.
MCDeliveryMaxTime == 1
MCDeliveryDeadline == 1
MCDeliveryMaxEmit == 2

\* Release runs: the kinds whose listeners return on errCh, and the
\* pending-transaction kind on its own.
MCReturningKinds == {"blocks", "logs"}
MCPendingKind == {"pending"}
MCReleaseMaxTime == 2
MCReleaseMaxEmit == 1

\* Logs filters that may receive a Tx whose result DecodeResultData rejects.
MCLogsKind == {"logs"}
MCAllLogEvents == {"match", "nomatch", "undecodable"}
=============================================================================
