----------------------------- MODULE MC_AppABCI -----------------------------
EXTENDS AppABCI

\* A bank send, valid and invalid order messages, and EVM messages inside a
\* StdTx.
MCMsgs ==
  { [k |-> "bank", valid |-> TRUE],
    [k |-> "newOrders", valid |-> TRUE], [k |-> "newOrders", valid |-> FALSE],
    [k |-> "cancelOrders", valid |-> FALSE],
    [k |-> "ethermint", valid |-> TRUE], [k |-> "ethereumTx", valid |-> TRUE] }

\* StdTxs of one to three messages, and a bare Ethereum tx.
MCTxs ==
  { [std |-> TRUE, msgs |-> s] :
      s \in UNION {[1..n -> MCMsgs] : n \in 1..3} }
  \cup { [std |-> FALSE, msgs |-> << [k |-> "ethereumTx", valid |-> TRUE] >>] }

MCMaxHeight == 2
MCMaxTxs == 2
MCMaxRestarts == 1
=============================================================================
