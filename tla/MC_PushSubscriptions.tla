------------------------ MODULE MC_PushSubscriptions ------------------------
EXTENDS PushSubscriptions

CONSTANTS s1, s2

MCSubs == {s1, s2}
MCKinds == {"pendingTxs", "heads", "logs"}
MCMaxEmit == 2

\* Every Tx event, including those of non-EVM messages.
MCAllLogEvents == {"match", "nomatch", "nonEvm", "undecodable"}
MCLogsKind == {"logs"}
=============================================================================
