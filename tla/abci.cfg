CONSTANTS
  Txs <- MCTxs
  SyncEnabled = TRUE
  MaxHeight <- MCMaxHeight
  MaxTxs <- MCMaxTxs
  MaxRestarts <- MCMaxRestarts
SPECIFICATION Spec
INVARIANTS
  HookAsDocumented
CHECK_DEADLOCK FALSE
